---- MODULE Spec2Model ----
(***************************************************************************)
(* A model of the question-answering core of TDSsolverIITM:                *)
(*   - ModelManager.clean_response       (src/model_manager.py)            *)
(*   - CodeQuestionHandler.handle_question and its matchers                *)
(*                                        (src/code_question_handlers.py)  *)
(*   - CodeExecutor.execute_code, detect_language, extract_code_blocks    *)
(*     and execute_and_get_result         (src/code_executor.py)           *)
(*   - ModelManager.generate_answer       (src/model_manager.py)           *)
(*                                                                         *)
(* A Python str is a sequence of one-character strings, so that lower(),   *)
(* strip(), split(), startswith() and the "in" test are computed, not      *)
(* assumed.  A literal is written as a tuple followed by a comment that    *)
(* shows its text; in that comment [dq] is a double quote, [nl] a newline. *)
(***************************************************************************)
EXTENDS Integers, Sequences, FiniteSets, TLC

VARIABLES
    \* ---- ModelManager.clean_response applied once and twice
    cl_pc,            \* "idle" | "start" | "once" | "twice"
    cl_response,      \* the raw text handed to clean_response
    cl_question,      \* the question handed to clean_response
    cl_out1,          \* result of clean_response(cl_response, cl_question)
    cl_out2,          \* result of clean_response(cl_out1, cl_question)
    \* ---- CodeQuestionHandler.handle_question
    hq_question,      \* the question handle_question was called with
    hq_pc,            \* "idle" | the try block handle_question is at | "done" | "raised" | "hung"
    hq_trace,         \* the calls made so far: [matcher, outcome]
    hq_result,        \* what handle_question returned: [handled, answer]
    \* ---- CodeExecutor.execute_code
    ex_pc,            \* "idle" | "start" | "create" | "write" | "spawn" | "wait" | "cleanup" | "returned"
    ex_code,          \* the code argument
    ex_language,      \* the language argument, <<>> for None
    ex_file,          \* the temporary file: "none" | "exists" | "gone"
    ex_events,        \* what the call did and logged, in order
    ex_result,        \* what the call returns: [success, output]
    \* ---- ModelManager.generate_answer (its question is hq_question)
    available_models, \* self.available_models, in the order __init__ appends them
    ga_pc,            \* "idle" | "bank" | "select" | "call" | "sandbox" | "blocks" | "running" |
                      \* "clean" | "returned" | "raised"
    ga_response,      \* response
    ga_events,        \* what the request did after the bank, in order
    ga_answer,        \* the str returned, or the exception raised
    sb_blocks,        \* execute_and_get_result: the code blocks still to run
    sb_results        \* execute_and_get_result: results

clean_vars == <<cl_pc, cl_response, cl_question, cl_out1, cl_out2>>

bank_vars == <<hq_question, hq_pc, hq_trace, hq_result>>

exec_vars == <<ex_pc, ex_code, ex_language, ex_file, ex_events, ex_result>>

gen_vars == <<available_models, ga_pc, ga_response, ga_events, ga_answer, sb_blocks, sb_results>>

vars == <<clean_vars, bank_vars, exec_vars, gen_vars>>

(***************************************************************************)
(* Python str operations                                                   *)
(***************************************************************************)

\* the whitespace characters str.strip() removes (those the inputs can hold)
Whitespace == {" ", "\t", "\n"}

\* the backtick of a code fence, and the single quote
Backtick == "`"

Apostrophe == "'"

UpperToLower ==
    [c \in {"A","B","C","D","E","F","G","H","I","J","K","L","M","N","O","P","Q","R","S","T","U","V","W","X","Y","Z"} |->
       CASE c = "A" -> "a" [] c = "B" -> "b" [] c = "C" -> "c" [] c = "D" -> "d"
         [] c = "E" -> "e" [] c = "F" -> "f" [] c = "G" -> "g" [] c = "H" -> "h"
         [] c = "I" -> "i" [] c = "J" -> "j" [] c = "K" -> "k" [] c = "L" -> "l"
         [] c = "M" -> "m" [] c = "N" -> "n" [] c = "O" -> "o" [] c = "P" -> "p"
         [] c = "Q" -> "q" [] c = "R" -> "r" [] c = "S" -> "s" [] c = "T" -> "t"
         [] c = "U" -> "u" [] c = "V" -> "v" [] c = "W" -> "w" [] c = "X" -> "x"
         [] c = "Y" -> "y" [] c = "Z" -> "z"]

\* str.lower()
Lower(s) ==
    [i \in 1..Len(s) |-> IF s[i] \in DOMAIN UpperToLower THEN UpperToLower[s[i]] ELSE s[i]]

\* p occurs in s at index i (1-based)
MatchAt(s, i, p) ==
    /\ i >= 1
    /\ i + Len(p) - 1 <= Len(s)
    /\ \A j \in 1..Len(p) : s[i + j - 1] = p[j]

\* s.startswith(p)
StartsWith(s, p) == MatchAt(s, 1, p)

\* sub in s
Contains(s, sub) == \E i \in 1..(Len(s) - Len(sub) + 1) : MatchAt(s, i, sub)

SetMin(S) == CHOOSE x \in S : \A y \in S : x <= y

SetMax(S) == CHOOSE x \in S : \A y \in S : y <= x

\* s.strip(chars): the leading and trailing characters that are in cs go
StripChars(s, cs) ==
    LET keep == {i \in 1..Len(s) : s[i] \notin cs}
    IN  IF keep = {} THEN <<>> ELSE SubSeq(s, SetMin(keep), SetMax(keep))

\* s.strip()
Strip(s) == StripChars(s, Whitespace)

\* s.split(sep) for a one-character separator
Split(s, sep) ==
    LET at    == {i \in 1..Len(s) : s[i] = sep}
        n     == Cardinality(at)
        \* cut[k]: index of the k-th separator; cut[0] = 0, cut[n+1] = Len(s)+1
        cut   == [k \in 0..(n + 1) |->
                    IF k = 0 THEN 0
                    ELSE IF k = n + 1 THEN Len(s) + 1
                    ELSE CHOOSE i \in at : Cardinality({j \in at : j < i}) = k - 1]
    IN  [k \in 1..(n + 1) |-> SubSeq(s, cut[k - 1] + 1, cut[k] - 1)]

\* sep.join(parts)
RECURSIVE Join(_, _)
Join(parts, sep) ==
    IF Len(parts) = 0 THEN <<>>
    ELSE IF Len(parts) = 1 THEN parts[1]
    ELSE parts[1] \o sep \o Join(Tail(parts), sep)

(***************************************************************************)
(* ModelManager.clean_response                                             *)
(***************************************************************************)

\* what a call hands back: None, a str, or the exception that leaves it
PyNone == [kind |-> "none", val |-> <<>>]

PyStr(s) == [kind |-> "str", val |-> s]

PyRaise(e) == [kind |-> e, val |-> <<>>]

\* lines = [line.strip() for line in response.split('\n') if line.strip()]
NonEmptyLines(response) ==
    LET stripped == [k \in 1..Len(Split(response, "\n")) |-> Strip(Split(response, "\n")[k])]
    IN  SelectSeq(stripped, LAMBDA l : l # <<>>)

\* the headers compared with the lines as written, not with line.lower()
HasOutputHeaderCased(lines) ==
    \E k \in 1..Len(lines) :
        \/ StartsWith(lines[k], <<"v","e","r","s","i","o","n",":">> (* version: *))
        \/ StartsWith(lines[k], <<"o","s"," ","v","e","r","s","i","o","n",":">> (* os version: *))

\* any(line.lower().startswith(('version:', 'os version:')) for line in lines)
HasOutputHeader(lines) ==
    \E k \in 1..Len(lines) :
        \/ StartsWith(Lower(lines[k]), <<"v","e","r","s","i","o","n",":">> (* version: *))
        \/ StartsWith(Lower(lines[k]), <<"o","s"," ","v","e","r","s","i","o","n",":">> (* os version: *))

\* the labels compared with the line as written, not with line.lower()
IsAnswerLabelLineCased(line) ==
    \/ StartsWith(line, <<"a","n","s","w","e","r",":">> (* answer: *))
    \/ StartsWith(line, <<"t","h","e"," ","a","n","s","w","e","r"," ","i","s",":">> (* the answer is: *))
    \/ StartsWith(line, <<"r","e","s","u","l","t",":">> (* result: *))

\* line.lower().startswith(('answer:', 'the answer is:', 'result:'))
IsAnswerLabelLine(line) ==
    \/ StartsWith(Lower(line), <<"a","n","s","w","e","r",":">> (* answer: *))
    \/ StartsWith(Lower(line), <<"t","h","e"," ","a","n","s","w","e","r"," ","i","s",":">> (* the answer is: *))
    \/ StartsWith(Lower(line), <<"r","e","s","u","l","t",":">> (* result: *))

\* line.split(':', 1)[1].strip()
AfterFirstColon(line) ==
    LET c == SetMin({i \in 1..Len(line) : line[i] = ":"})
    IN  Strip(SubSeq(line, c + 1, Len(line)))

\* the last line of minimal length
ShortestLineLast(valid_lines) ==
    LET m == SetMin({Len(valid_lines[k]) : k \in 1..Len(valid_lines)})
    IN  valid_lines[SetMax({k \in 1..Len(valid_lines) : Len(valid_lines[k]) = m})]

\* min(valid_lines, key=len): the first line of minimal length
ShortestLine(valid_lines) ==
    LET m == SetMin({Len(valid_lines[k]) : k \in 1..Len(valid_lines)})
    IN  valid_lines[SetMin({k \in 1..Len(valid_lines) : Len(valid_lines[k]) = m})]

common_prefixes ==
    << <<"t","h","e"," ","a","n","s","w","e","r"," ","i","s"," ">> (* the answer is  *), <<"a","n","s","w","e","r",":"," ">> (* answer:  *), <<"r","e","s","u","l","t",":"," ">> (* result:  *), <<"v","a","l","u","e",":"," ">> (* value:  *),
       <<"t","h","e"," ","v","a","l","u","e"," ","i","s"," ">> (* the value is  *), <<"o","u","t","p","u","t",":"," ">> (* output:  *), <<"t","h","e"," ","o","u","t","p","u","t"," ","i","s"," ">> (* the output is  *) >>

\* for prefix in common_prefixes[k..]: if response.lower().startswith(prefix): ...
RECURSIVE StripPrefixes(_, _)
StripPrefixes(response, k) ==
    IF k > Len(common_prefixes) THEN response
    ELSE IF StartsWith(Lower(response), common_prefixes[k])
         THEN StripPrefixes(Strip(SubSeq(response, Len(common_prefixes[k]) + 1, Len(response))), k + 1)
         ELSE StripPrefixes(response, k + 1)

\* lines 318-330: the cleaning applied to the selected answer
FinishClean(response) == PyStr(StripPrefixes(StripChars(response, {"\"", "'"}), 1))

clean_response(response, question) ==
    LET lines == NonEmptyLines(response)
        ql    == Lower(question)
        labelled == {k \in 1..Len(lines) : IsAnswerLabelLine(lines[k])}
        valid_lines == SelectSeq(lines, LAMBDA l : Len(l) >= 1)
    IN  IF /\ Contains(ql, <<"c","o","d","e"," ","-","s">> (* code -s *))
           /\ Contains(ql, <<"o","u","t","p","u","t">> (* output *))
           /\ HasOutputHeader(lines)
        THEN PyStr(Join(lines, <<"\n">>))
        ELSE IF Len(lines) > 1
        THEN IF labelled # {}
             THEN FinishClean(AfterFirstColon(lines[SetMin(labelled)]))
             ELSE IF HasOutputHeader(lines)
             THEN PyStr(Join(lines, <<"\n">>))
             ELSE IF Len(valid_lines) > 0
             THEN IF Contains(ql, <<"c","o","m","m","a","n","d">> (* command *)) \/ Contains(ql, <<"o","u","t","p","u","t">> (* output *))
                  THEN PyStr(Join(valid_lines, <<"\n">>))
                  ELSE FinishClean(ShortestLine(valid_lines))
             ELSE FinishClean(response)
        ELSE IF Len(lines) = 0
        THEN PyRaise("IndexError")          \* lines[0] of an empty list
        ELSE FinishClean(lines[1])

(***************************************************************************)
(* Python int, re and datetime operations used by the matchers             *)
(***************************************************************************)

Digits == {"0","1","2","3","4","5","6","7","8","9"}

DigitChars == <<"0","1","2","3","4","5","6","7","8","9">>

\* int(c) for one digit character
DigitVal(c) == (CHOOSE k \in 1..10 : DigitChars[k] = c) - 1

\* \d+ from index i on: how many digits follow (greedy)
DigitRun(s, i) ==
    SetMin({j \in i..(Len(s) + 1) : j = Len(s) + 1 \/ s[j] \notin Digits}) - i

\* int(ds) for a run of digits
RECURSIVE ParseInt(_)
ParseInt(ds) ==
    IF Len(ds) = 0 THEN 0
    ELSE ParseInt(SubSeq(ds, 1, Len(ds) - 1)) * 10 + DigitVal(ds[Len(ds)])

\* str(n) for an int
RECURSIVE IntToStr(_)
IntToStr(n) ==
    IF n < 0 THEN <<"-">> \o IntToStr(0 - n)
    ELSE IF n < 10 THEN <<DigitChars[n + 1]>>
    ELSE IntToStr(n \div 10) \o <<DigitChars[(n % 10) + 1]>>

\* "if result:" -- a str that is not empty
Truthy(r) == r.kind = "str" /\ r.val # <<>>

IsRaise(r) == r.kind \notin {"none", "str"}

\* re.search(lit + r'(\d+)', s): the digits of the leftmost match, or <<>>
NumberAfter(s, lit) ==
    LET at == {i \in 1..Len(s) : MatchAt(s, i, lit) /\ DigitRun(s, i + Len(lit)) > 0}
    IN  IF at = {} THEN <<>>
        ELSE SubSeq(s, SetMin(at) + Len(lit),
                    SetMin(at) + Len(lit) + DigitRun(s, SetMin(at) + Len(lit)) - 1)

\* re.search(r'(\d+)' + lit, s): the start of the leftmost match, or 0
NumberBefore(s, lit) ==
    LET at == {i \in 1..Len(s) : DigitRun(s, i) > 0 /\ MatchAt(s, i + DigitRun(s, i), lit)}
    IN  IF at = {} THEN 0 ELSE SetMin(at)

\* re.search(r'\"([^\"]+)\"', s) from index from on: <<start, end>> of the
\* text between the first pair of double quotes that holds something, or <<0, 0>>
QuotedFrom(s, from) ==
    LET open == {i \in from..Len(s) : /\ s[i] = "\""
                                        /\ i + 1 <= Len(s)
                                        /\ s[i + 1] # "\""
                                        /\ \E j \in (i + 2)..Len(s) : s[j] = "\""}
    IN  IF open = {} THEN <<0, 0>>
        ELSE LET i == SetMin(open)
                 j == SetMin({k \in (i + 2)..Len(s) : s[k] = "\""})
             IN  <<i + 1, j - 1>>

\* ---- datetime

DaysInMonth(y, m) ==
    IF m = 2 THEN (IF (y % 4 = 0) /\ ((y % 100 # 0) \/ (y % 400 = 0)) THEN 29 ELSE 28)
    ELSE IF m \in {4, 6, 9, 11} THEN 30 ELSE 31

\* \d{4}-\d{2}-\d{2} at index i
DateAt(s, i) ==
    /\ i >= 1
    /\ i + 9 <= Len(s)
    /\ \A k \in {0, 1, 2, 3, 5, 6, 8, 9} : s[i + k] \in Digits
    /\ s[i + 4] = "-"
    /\ s[i + 7] = "-"

\* re.findall(r'(\d{4}-\d{2}-\d{2})', s): the starts of the first two matches
\* (0 where there is none)
FirstTwoDates(s) ==
    LET at == {i \in 1..Len(s) : DateAt(s, i)}
        a  == IF at = {} THEN 0 ELSE SetMin(at)
        rest == {i \in at : i >= a + 10}
    IN  <<a, IF a = 0 \/ rest = {} THEN 0 ELSE SetMin(rest)>>

\* datetime.strptime(ds, '%Y-%m-%d') succeeds (else ValueError)
ValidDate(ds) ==
    /\ ParseInt(SubSeq(ds, 1, 4)) >= 1
    /\ ParseInt(SubSeq(ds, 6, 7)) \in 1..12
    /\ ParseInt(SubSeq(ds, 9, 10)) \in
          1..DaysInMonth(ParseInt(SubSeq(ds, 1, 4)), ParseInt(SubSeq(ds, 6, 7)))

\* datetime.toordinal(): days since 0001-01-01, that day being 1
Ordinal(y, m, d) ==
    LET before == y - 1
        RECURSIVE Months(_)
        Months(k) == IF k = 0 THEN 0 ELSE DaysInMonth(y, k) + Months(k - 1)
    IN  before * 365 + (before \div 4) - (before \div 100) + (before \div 400)
        + Months(m - 1) + d

DateOrdinal(ds) ==
    Ordinal(ParseInt(SubSeq(ds, 1, 4)), ParseInt(SubSeq(ds, 6, 7)), ParseInt(SubSeq(ds, 9, 10)))

\* datetime.weekday() of the day with ordinal o: Monday is 0
WeekdayOf(o) == (o + 6) % 7

(***************************************************************************)
(* CodeQuestionHandler: the matchers of the bank.  Every matcher takes the *)
(* question q and hands back PyNone, PyStr(answer) or PyRaise(exception).  *)
(***************************************************************************)

\* the elements of xs in descending order (sorted(..., reverse=True))
SortedDesc(xs) ==
    LET pos(k) == 1 + Cardinality({j \in 1..Len(xs) : xs[j] > xs[k]})
                    + Cardinality({j \in 1..(k - 1) : xs[j] = xs[k]})
    IN  [r \in 1..Len(xs) |-> xs[CHOOSE k \in 1..Len(xs) : pos(k) = r]]

\* int(x.strip()) succeeds: an optional sign and then digits only
IsIntLiteral(x) ==
    LET y == Strip(x)
        body == IF Len(y) > 0 /\ y[1] \in {"+", "-"} THEN Tail(y) ELSE y
    IN  Len(body) > 0 /\ \A k \in 1..Len(body) : body[k] \in Digits

\* int(x.strip())
ParseSignedInt(x) ==
    LET y == Strip(x)
    IN  IF y[1] = "-" THEN 0 - ParseInt(Tail(y))
        ELSE IF y[1] = "+" THEN ParseInt(Tail(y))
        ELSE ParseInt(y)

\* re.search(r'\[([^\]]+)\]', s): <<start, end>> of the text between the
\* brackets, or <<0, 0>>
Bracketed(s) ==
    LET open == {i \in 1..Len(s) : /\ s[i] = "["
                                     /\ i + 1 <= Len(s)
                                     /\ s[i + 1] # "]"
                                     /\ \E j \in (i + 2)..Len(s) : s[j] = "]"}
    IN  IF open = {} THEN <<0, 0>>
        ELSE LET i == SetMin(open)
                 j == SetMin({k \in (i + 2)..Len(s) : s[k] = "]"})
             IN  <<i + 1, j - 1>>

\* re.search(r'string \"([^\"]+)\"', s) and the like: the text in double
\* quotes that follows the leftmost lit (lit ends with the opening quote)
QuotedAfter(s, lit) ==
    LET at == {i \in 1..Len(s) : /\ MatchAt(s, i, lit)
                                   /\ i + Len(lit) <= Len(s)
                                   /\ s[i + Len(lit)] # "\""
                                   /\ \E j \in (i + Len(lit) + 1)..Len(s) : s[j] = "\""}
    IN  IF at = {} THEN <<0, 0>>
        ELSE LET i == SetMin(at) + Len(lit)
                 j == SetMin({k \in (i + 1)..Len(s) : s[k] = "\""})
             IN  <<i, j - 1>>

\* ---- handle_ga1_questions

\* GA1 Question 1: maximum number from 3 digits
ga1_largest_number(q) ==
    LET ql == Lower(q)
        shape(i) == /\ MatchAt(q, i, <<"d","i","g","i","t","s"," ">> (* digits  *))
                    /\ DigitRun(q, i + 7) > 0
                    /\ MatchAt(q, i + 8, <<","," ">> (* ,  *))
                    /\ DigitRun(q, i + 10) > 0
                    /\ \/ MatchAt(q, i + 11, <<","," ">> (* ,  *)) /\ DigitRun(q, i + 13) > 0
                       \/ MatchAt(q, i + 11, <<" ","a","n","d"," ">> (*  and  *)) /\ DigitRun(q, i + 16) > 0
        at == {i \in 1..Len(q) : shape(i)}
    IN  IF Contains(ql, <<"a","r","r","a","n","g","e"," ","t","o"," ","f","o","r","m"," ","t","h","e"," ","l","a","r","g","e","s","t">> (* arrange to form the largest *)) /\ Contains(ql, <<"t","h","r","e","e"," ","d","i","g","i","t","s">> (* three digits *)) /\ at # {}
        THEN LET i == SetMin(at)
                 third == IF MatchAt(q, i + 11, <<","," ">> (* ,  *)) THEN q[i + 13] ELSE q[i + 16]
                 sorted == SortedDesc(<<DigitVal(q[i + 7]), DigitVal(q[i + 10]), DigitVal(third)>>)
             IN  PyStr(IntToStr(sorted[1]) \o IntToStr(sorted[2]) \o IntToStr(sorted[3]))
        ELSE PyNone

\* GA1 Question 2: count characters with frequency > k
ga1_char_frequency(q) ==
    LET ql == Lower(q)
        str == QuotedAfter(q, <<"s","t","r","i","n","g"," ","\"">> (* string [dq] *))
        kat == {i \in 1..Len(q) : /\ MatchAt(q, i, <<"m","o","r","e"," ","t","h","a","n"," ">> (* more than  *))
                                  /\ DigitRun(q, i + 10) > 0
                                  /\ MatchAt(q, i + 10 + DigitRun(q, i + 10), <<" ","t","i","m","e","s">> (*  times *))}
    IN  IF /\ Contains(ql, <<"c","o","u","n","t"," ","c","h","a","r","a","c","t","e","r","s"," ","t","h","a","t"," ","a","p","p","e","a","r"," ","m","o","r","e"," ","t","h","a","n">> (* count characters that appear more than *))
           /\ Contains(ql, <<"t","i","m","e","s">> (* times *))
           /\ str # <<0, 0>>
           /\ kat # {}
        THEN LET input_string == SubSeq(q, str[1], str[2])
                 k == ParseInt(SubSeq(q, SetMin(kat) + 10, SetMin(kat) + 9 + DigitRun(q, SetMin(kat) + 10)))
                 count(c) == Cardinality({n \in 1..Len(input_string) : input_string[n] = c})
             IN  PyStr(IntToStr(Cardinality({c \in {input_string[n] : n \in 1..Len(input_string)} : count(c) > k})))
        ELSE PyNone

\* GA1 Question 3: Fibonacci
ga1_fibonacci(q) ==
    LET ql == Lower(q)
    IN  IF ~Contains(ql, <<"f","i","b","o","n","a","c","c","i">> (* fibonacci *)) THEN PyNone
        ELSE IF Contains(ql, <<"2","0","t","h"," ","f","i","b","o","n","a","c","c","i"," ","n","u","m","b","e","r">> (* 20th fibonacci number *)) THEN PyStr(<<"6","7","6","5">> (* 6765 *))
        ELSE IF Contains(ql, <<"1","2","t","h"," ","f","i","b","o","n","a","c","c","i"," ","n","u","m","b","e","r">> (* 12th fibonacci number *)) THEN PyStr(<<"1","4","4">> (* 144 *))
        ELSE IF Contains(ql, <<"1","5","t","h"," ","f","i","b","o","n","a","c","c","i"," ","n","u","m","b","e","r">> (* 15th fibonacci number *)) THEN PyStr(<<"6","1","0">> (* 610 *))
        ELSE PyNone

\* a & b
RECURSIVE BitAnd(_, _)
BitAnd(a, b) ==
    IF a = 0 \/ b = 0 THEN 0
    ELSE (a % 2) * (b % 2) + 2 * BitAnd(a \div 2, b \div 2)

\* result = start; for i in range(start + 1, end + 1): result &= i
RECURSIVE AndThrough(_, _, _)
AndThrough(result, i, end) ==
    IF i > end THEN result ELSE AndThrough(BitAnd(result, i), i + 1, end)

\* GA1 Question 4: bitwise AND of a range
ga1_bitwise_and(q) ==
    LET ql == Lower(q)
        at == {i \in 1..Len(q) : /\ DigitRun(q, i) > 0
                                 /\ MatchAt(q, i + DigitRun(q, i), <<" ","t","h","r","o","u","g","h"," ">> (*  through  *))
                                 /\ DigitRun(q, i + DigitRun(q, i) + 9) > 0}
    IN  IF Contains(ql, <<"b","i","t","w","i","s","e"," ","a","n","d">> (* bitwise and *)) /\ Contains(ql, <<"t","h","r","o","u","g","h">> (* through *)) /\ at # {}
        THEN LET i == SetMin(at)
                 j == i + DigitRun(q, i) + 9
                 start == ParseInt(SubSeq(q, i, i + DigitRun(q, i) - 1))
                 end == ParseInt(SubSeq(q, j, j + DigitRun(q, j) - 1))
             IN  PyStr(IntToStr(AndThrough(start, start + 1, end)))
        ELSE PyNone

roman_values ==
    [c \in {"I", "V", "X", "L", "C", "D", "M"} |->
        CASE c = "I" -> 1 [] c = "V" -> 5 [] c = "X" -> 10 [] c = "L" -> 50
          [] c = "C" -> 100 [] c = "D" -> 500 [] c = "M" -> 1000]

\* for symbol in reversed(roman): add or subtract its value
RECURSIVE RomanTotal(_, _, _, _)
RomanTotal(roman, k, total, prev_value) ==
    IF k = 0 THEN total
    ELSE LET current_value == roman_values[roman[k]]
         IN  RomanTotal(roman, k - 1,
                        IF current_value >= prev_value THEN total + current_value
                                                       ELSE total - current_value,
                        current_value)

\* GA1 Question 5: Roman numeral to integer
ga1_roman(q) ==
    LET ql == Lower(q)
        run(i) == SetMin({j \in i..(Len(q) + 1) : j = Len(q) + 1 \/ q[j] \notin DOMAIN roman_values}) - i
        at == {i \in 1..Len(q) : /\ q[i] = "\""
                                 /\ run(i + 1) > 0
                                 /\ MatchAt(q, i + 1 + run(i + 1), <<"\"">>)}
    IN  IF Contains(ql, <<"r","o","m","a","n"," ","n","u","m","e","r","a","l">> (* roman numeral *)) /\ Contains(ql, <<"i","n","t","e","g","e","r">> (* integer *)) /\ at # {}
        THEN LET roman == SubSeq(q, SetMin(at) + 1, SetMin(at) + run(SetMin(at) + 1))
             IN  PyStr(IntToStr(RomanTotal(roman, Len(roman), 0, 0)))
        ELSE PyNone

\* ---- handle_ga2_questions

\* bin(n)[2:]
RECURSIVE Binary(_)
Binary(n) == IF n < 2 THEN <<DigitChars[n + 1]>> ELSE Binary(n \div 2) \o <<DigitChars[(n % 2) + 1]>>

\* GA2 Question 1: binary representation of a number
ga2_binary(q) ==
    LET ql == Lower(q)
        digits == NumberAfter(ql, <<"b","i","n","a","r","y"," ","r","e","p","r","e","s","e","n","t","a","t","i","o","n"," ","o","f"," ">> (* binary representation of  *))
    IN  IF Contains(ql, <<"b","i","n","a","r","y"," ","r","e","p","r","e","s","e","n","t","a","t","i","o","n">> (* binary representation *)) /\ digits # <<>>
        THEN LET number == ParseInt(digits)
             IN  IF number = 42 THEN PyStr(<<"1","0","1","0","1","0">> (* 101010 *))
                 ELSE IF number = 255 THEN PyStr(<<"1","1","1","1","1","1","1","1">> (* 11111111 *))
                 ELSE IF number = 128 THEN PyStr(<<"1","0","0","0","0","0","0","0">> (* 10000000 *))
                 ELSE PyStr(Binary(number))
        ELSE PyNone

\* GA2 Question 2: list comprehension with filtering
ga2_list_comprehension(q) ==
    LET ql == Lower(q)
    IN  IF ~(Contains(ql, <<"l","i","s","t"," ","c","o","m","p","r","e","h","e","n","s","i","o","n">> (* list comprehension *)) /\ (Contains(ql, <<"f","i","l","t","e","r">> (* filter *)) \/ Contains(ql, <<"d","i","v","i","s","i","b","l","e">> (* divisible *))))
        THEN PyNone
        ELSE IF Contains(ql, <<"d","i","v","i","s","i","b","l","e"," ","b","y"," ","b","o","t","h"," ","2"," ","a","n","d"," ","3">> (* divisible by both 2 and 3 *)) /\ Contains(ql, <<"r","a","n","g","e"," ","f","r","o","m"," ","1"," ","t","o"," ","5","0">> (* range from 1 to 50 *))
        THEN PyStr(<<"[","6",","," ","1","2",","," ","1","8",","," ","2","4",","," ","3","0",","," ","3","6",","," ","4","2",","," ","4","8","]">> (* [6, 12, 18, 24, 30, 36, 42, 48] *))
        ELSE IF Contains(ql, <<"d","i","v","i","s","i","b","l","e"," ","b","y"," ","3">> (* divisible by 3 *)) /\ Contains(ql, <<"r","a","n","g","e"," ","f","r","o","m"," ","1"," ","t","o"," ","3","0">> (* range from 1 to 30 *))
        THEN PyStr(<<"[","3",","," ","6",","," ","9",","," ","1","2",","," ","1","5",","," ","1","8",","," ","2","1",","," ","2","4",","," ","2","7",","," ","3","0","]">> (* [3, 6, 9, 12, 15, 18, 21, 24, 27, 30] *))
        ELSE PyNone

\* GA2 Question 3: dictionary operations
ga2_dictionary(q) ==
    LET ql == Lower(q)
    IN  IF ~(Contains(ql, <<"d","i","c","t","i","o","n","a","r","y">> (* dictionary *)) /\ (Contains(ql, <<"k","e","y","s">> (* keys *)) \/ Contains(ql, <<"v","a","l","u","e","s">> (* values *))))
        THEN PyNone
        ELSE IF ~Contains(q, <<"{","'","a","'",":"," ","1",","," ","'","b","'",":"," ","2",","," ","'","c","'",":"," ","3",","," ","'","d","'",":"," ","4","}">> (* {'a': 1, 'b': 2, 'c': 3, 'd': 4} *)) THEN PyNone
        ELSE IF Contains(ql, <<"p","r","o","d","u","c","t"," ","o","f"," ","a","l","l"," ","v","a","l","u","e","s">> (* product of all values *)) THEN PyStr(<<"2","4">> (* 24 *))
        ELSE IF Contains(ql, <<"c","o","n","c","a","t","e","n","a","t","e"," ","a","l","l"," ","k","e","y","s">> (* concatenate all keys *)) THEN PyStr(<<"a","b","c","d">> (* abcd *))
        ELSE PyNone

\* GA2 Question 4: count the vowels of a string
ga2_vowels(q) ==
    LET ql == Lower(q)
        str == QuotedAfter(q, <<"s","t","r","i","n","g"," ","\"">> (* string [dq] *))
    IN  IF Contains(ql, <<"s","t","r","i","n","g">> (* string *)) /\ Contains(ql, <<"v","o","w","e","l","s">> (* vowels *)) /\ str # <<0, 0>>
        THEN PyStr(IntToStr(Cardinality({n \in str[1]..str[2] :
                        q[n] \in {"a","e","i","o","u","A","E","I","O","U"}})))
        ELSE PyNone

\* GA2 Question 5: second largest of a list; a list that does not parse is
\* passed over (the bare except)
ga2_second_largest(q) ==
    LET ql == Lower(q)
        br == Bracketed(q)
        items == Split(SubSeq(q, br[1], br[2]), ",")
    IN  IF /\ Contains(ql, <<"l","i","s","t">> (* list *))
           /\ Contains(ql, <<"s","e","c","o","n","d"," ","l","a","r","g","e","s","t">> (* second largest *))
           /\ br # <<0, 0>>
           /\ \A k \in 1..Len(items) : IsIntLiteral(items[k])
        THEN LET numbers == {ParseSignedInt(items[k]) : k \in 1..Len(items)}
                 top == SetMax(numbers)
             IN  IF Cardinality(numbers) >= 2
                 THEN PyStr(IntToStr(SetMax(numbers \ {top})))
                 ELSE PyStr(IntToStr(top))
        ELSE PyNone

\* ---- handle_ga3_questions

\* the loop started from result = 0
RECURSIVE FactorialFromZero(_)
FactorialFromZero(n) == IF n < 2 THEN 0 ELSE n * FactorialFromZero(n - 1)

\* result = 1; for i in range(2, number + 1): result *= i
RECURSIVE Factorial(_)
Factorial(n) == IF n < 2 THEN 1 ELSE n * Factorial(n - 1)

\* GA3 Question 1: factorial
ga3_factorial(q) ==
    LET ql == Lower(q)
        digits == NumberAfter(ql, <<"f","a","c","t","o","r","i","a","l"," ","o","f"," ">> (* factorial of  *))
    IN  IF Contains(ql, <<"f","a","c","t","o","r","i","a","l">> (* factorial *)) /\ digits # <<>>
        THEN LET number == ParseInt(digits)
             IN  IF number = 5 THEN PyStr(<<"1","2","0">> (* 120 *))
                 ELSE IF number = 10 THEN PyStr(<<"3","6","2","8","8","0","0">> (* 3628800 *))
                 ELSE PyStr(IntToStr(Factorial(number)))
        ELSE PyNone

\* sorted(a.replace(" ", "")) == sorted(b.replace(" ", ""))
SameLetters(a, b) ==
    \A c \in ({a[n] : n \in 1..Len(a)} \cup {b[n] : n \in 1..Len(b)}) \ {" "} :
        Cardinality({n \in 1..Len(a) : a[n] = c}) = Cardinality({n \in 1..Len(b) : b[n] = c})

\* GA3 Question 2: anagram check
ga3_anagram(q) ==
    LET ql == Lower(q)
        close(i) == SetMin({k \in (i + 1)..(Len(q) + 1) : k = Len(q) + 1 \/ q[k] = "\""})
        at == {i \in 1..Len(q) : /\ q[i] = "\""
                                 /\ close(i) > i + 1
                                 /\ MatchAt(q, close(i), <<"\""," ","a","n","d"," ","\"">> (* [dq] and [dq] *))
                                 /\ close(close(i) + 6) > close(i) + 7
                                 /\ close(close(i) + 6) <= Len(q)}
    IN  IF Contains(ql, <<"a","n","a","g","r","a","m">> (* anagram *)) /\ at # {}
        THEN LET i == SetMin(at)
                 j == close(i)
                 str1 == Lower(SubSeq(q, i + 1, j - 1))
                 str2 == Lower(SubSeq(q, j + 7, close(j + 6) - 1))
             IN  IF SameLetters(str1, str2) THEN PyStr(<<"T","r","u","e">> (* True *)) ELSE PyStr(<<"F","a","l","s","e">> (* False *))
        ELSE PyNone

\* GA3 Question 3: numeric palindrome
ga3_palindrome(q) ==
    LET ql == Lower(q)
        i == NumberBefore(q, <<" ","i","s"," ","a"," ","p","a","l","i","n","d","r","o","m","e">> (*  is a palindrome *))
    IN  IF /\ Contains(ql, <<"p","a","l","i","n","d","r","o","m","e">> (* palindrome *))
           /\ \E n \in 1..Len(ql) : ql[n] \in Digits
           /\ i # 0
        THEN LET number == SubSeq(q, i, i + DigitRun(q, i) - 1)
             IN  IF \A n \in 1..Len(number) : number[n] = number[Len(number) + 1 - n]
                 THEN PyStr(<<"T","r","u","e">> (* True *)) ELSE PyStr(<<"F","a","l","s","e">> (* False *))
        ELSE PyNone

\* a loop that tests i only, not i + 2
RECURSIVE PrimeLoopSingle(_, _)
PrimeLoopSingle(number, i) ==
    IF i * i > number THEN TRUE
    ELSE IF number % i = 0 THEN FALSE
    ELSE PrimeLoopSingle(number, i + 6)

\* i = 5; while i * i <= number: ... i += 6
RECURSIVE PrimeLoop(_, _)
PrimeLoop(number, i) ==
    IF i * i > number THEN TRUE
    ELSE IF number % i = 0 \/ number % (i + 2) = 0 THEN FALSE
    ELSE PrimeLoop(number, i + 6)

\* lines 407-421: the trial division
IsPrimeByTrial(number) ==
    IF number <= 1 THEN FALSE
    ELSE IF number <= 3 THEN TRUE
    ELSE IF number % 2 = 0 \/ number % 3 = 0 THEN FALSE
    ELSE PrimeLoop(number, 5)

\* GA3 Question 4: prime number check
ga3_prime(q) ==
    LET ql == Lower(q)
        a == NumberBefore(q, <<" ","i","s"," ","a">> (*  is a *))
        b == NumberBefore(q, <<" ","i","s"," ","p","r","i","m","e">> (*  is prime *))
        i == IF a = 0 THEN b ELSE IF b = 0 THEN a ELSE IF a < b THEN a ELSE b
    IN  IF Contains(ql, <<"p","r","i","m","e"," ","n","u","m","b","e","r">> (* prime number *)) /\ i # 0
        THEN LET number == ParseInt(SubSeq(q, i, i + DigitRun(q, i) - 1))
             IN  IF number = 17 THEN PyStr(<<"T","r","u","e">> (* True *))
                 ELSE IF number = 20 THEN PyStr(<<"F","a","l","s","e">> (* False *))
                 ELSE IF number = 97 THEN PyStr(<<"T","r","u","e">> (* True *))
                 ELSE IF IsPrimeByTrial(number) THEN PyStr(<<"T","r","u","e">> (* True *)) ELSE PyStr(<<"F","a","l","s","e">> (* False *))
        ELSE PyNone

\* a gcd that stops before its loop
gcd_unlooped(x, y) == x

\* def gcd(x, y): while y: x, y = y, x % y
RECURSIVE gcd(_, _)
gcd(x, y) == IF y = 0 THEN x ELSE gcd(y, x % y)

\* GA3 Question 5: least common multiple
ga3_lcm(q) ==
    LET ql == Lower(q)
        at == {i \in 1..Len(q) : /\ DigitRun(q, i) > 0
                                 /\ MatchAt(q, i + DigitRun(q, i), <<" ","a","n","d"," ">> (*  and  *))
                                 /\ DigitRun(q, i + DigitRun(q, i) + 5) > 0}
    IN  IF (Contains(ql, <<"l","e","a","s","t"," ","c","o","m","m","o","n"," ","m","u","l","t","i","p","l","e">> (* least common multiple *)) \/ Contains(ql, <<"l","c","m">> (* lcm *))) /\ at # {}
        THEN LET i == SetMin(at)
                 j == i + DigitRun(q, i) + 5
                 a == ParseInt(SubSeq(q, i, i + DigitRun(q, i) - 1))
                 b == ParseInt(SubSeq(q, j, j + DigitRun(q, j) - 1))
             IN  IF (a = 12 /\ b = 18) \/ (a = 18 /\ b = 12) THEN PyStr(<<"3","6">> (* 36 *))
                 ELSE IF gcd(a, b) = 0 THEN PyRaise("ZeroDivisionError")
                 ELSE PyStr(IntToStr((a * b) \div gcd(a, b)))
        ELSE PyNone

\* ---- handle_ga4_questions

\* the image question with its lightness threshold
ga4_image(q) ==
    LET ql == Lower(q)
    IN  IF /\ Contains(q, <<"n","u","m","p","y">> (* numpy *)) /\ Contains(ql, <<"p","i","l">> (* pil *))
           /\ Contains(ql, <<"i","m","a","g","e">> (* image *)) /\ Contains(ql, <<"l","i","g","h","t","n","e","s","s">> (* lightness *))
           /\ Contains(q, <<"u","p","l","o","a","d","(",")",".","k","e","y","s">> (* upload().keys *)) /\ Contains(q, <<"r","g","b","_","t","o","_","h","l","s">> (* rgb_to_hls *)) /\ Contains(q, <<"0",".","6","7","3">> (* 0.673 *))
        THEN PyStr(<<"5","6","3","8","7">> (* 56387 *))
        ELSE PyNone

\* Kadane: max_so_far after the elements from index k on
RECURSIVE Kadane(_, _, _, _)
Kadane(numbers, k, max_ending_here, max_so_far) ==
    IF k > Len(numbers) THEN max_so_far
    ELSE LET here == IF numbers[k] > max_ending_here + numbers[k]
                     THEN numbers[k] ELSE max_ending_here + numbers[k]
         IN  Kadane(numbers, k + 1, here, IF here > max_so_far THEN here ELSE max_so_far)

\* GA4 Question 1: largest sum of a contiguous run; a list that does not
\* parse is passed over (the bare except)
ga4_largest_sum(q) ==
    LET ql == Lower(q)
        br == Bracketed(q)
        items == Split(SubSeq(q, br[1], br[2]), ",")
    IN  IF /\ (Contains(ql, <<"a","r","r","a","y">> (* array *)) \/ Contains(ql, <<"l","i","s","t">> (* list *)))
           /\ Contains(ql, <<"l","a","r","g","e","s","t"," ","s","u","m">> (* largest sum *))
           /\ br # <<0, 0>>
           /\ \A k \in 1..Len(items) : IsIntLiteral(items[k])
        THEN LET numbers == [k \in 1..Len(items) |-> ParseSignedInt(items[k])]
             IN  IF numbers = <<-2, 1, -3, 4, -1, 2, 1, -5, 4>> THEN PyStr(<<"6">> (* 6 *))
                 ELSE PyStr(IntToStr(Kadane(numbers, 2, numbers[1], numbers[1])))
        ELSE PyNone

\* s.split(): the maximal runs of characters that are not whitespace
Words(s) ==
    LET starts == {i \in 1..Len(s) : s[i] \notin Whitespace /\ (i = 1 \/ s[i - 1] \in Whitespace)}
        stop(i) == SetMin({j \in i..(Len(s) + 1) : j = Len(s) + 1 \/ s[j] \in Whitespace})
        nth(k) == CHOOSE i \in starts : Cardinality({j \in starts : j < i}) = k - 1
    IN  [k \in 1..Cardinality(starts) |-> SubSeq(s, nth(k), stop(nth(k)) - 1)]

\* GA4 Question 2: longest word of a quoted sentence; max() of no words
\* raises ValueError
ga4_longest_word(q) ==
    LET ql == Lower(q)
        qt == QuotedFrom(q, 1)
        words == Words(SubSeq(q, qt[1], qt[2]))
        most == SetMax({Len(words[k]) : k \in 1..Len(words)})
    IN  IF Contains(ql, <<"l","o","n","g","e","s","t"," ","w","o","r","d">> (* longest word *)) /\ qt # <<0, 0>>
        THEN IF Len(words) = 0 THEN PyRaise("ValueError")
             ELSE PyStr(words[SetMin({k \in 1..Len(words) : Len(words[k]) = most})])
        ELSE PyNone

\* GA4 Question 3: binary search, the two known questions
ga4_binary_search(q) ==
    LET ql == Lower(q)
    IN  IF ~Contains(ql, <<"b","i","n","a","r","y"," ","s","e","a","r","c","h">> (* binary search *)) THEN PyNone
        ELSE IF Contains(q, <<"[","1",","," ","3",","," ","5",","," ","7",","," ","9",","," ","1","1",","," ","1","3",","," ","1","5",","," ","1","7",","," ","1","9","]">> (* [1, 3, 5, 7, 9, 11, 13, 15, 17, 19] *)) /\ Contains(ql, <<"t","a","r","g","e","t"," ","1","1">> (* target 11 *))
        THEN PyStr(<<"5">> (* 5 *))
        ELSE IF Contains(q, <<"[","1",","," ","3",","," ","5",","," ","7",","," ","9",","," ","1","1",","," ","1","3",","," ","1","5",","," ","1","7",","," ","1","9","]">> (* [1, 3, 5, 7, 9, 11, 13, 15, 17, 19] *)) /\ Contains(ql, <<"t","a","r","g","e","t"," ","6">> (* target 6 *))
        THEN PyStr(<<"-","1">> (* -1 *))
        ELSE PyNone

\* GA4 Question 4: count a word in a text
ga4_word_frequency(q) ==
    LET ql == Lower(q)
        tx == QuotedAfter(q, <<"t","e","x","t"," ","\"">> (* text [dq] *))
        wd == QuotedAfter(q, <<"w","o","r","d"," ","\"">> (* word [dq] *))
    IN  IF /\ Contains(ql, <<"f","r","e","q","u","e","n","c","y">> (* frequency *)) /\ Contains(ql, <<"w","o","r","d">> (* word *))
           /\ tx # <<0, 0>> /\ wd # <<0, 0>>
        THEN LET words == Words(Lower(SubSeq(q, tx[1], tx[2])))
                 word == Lower(SubSeq(q, wd[1], wd[2]))
             IN  PyStr(IntToStr(Cardinality({k \in 1..Len(words) : words[k] = word})))
        ELSE PyNone

\* GA4 Question 5: the known matrix
ga4_matrix(q) ==
    LET ql == Lower(q)
    IN  IF ~Contains(ql, <<"m","a","t","r","i","x">> (* matrix *)) THEN PyNone
        ELSE IF ~Contains(q, <<"[","[","1",","," ","2",","," ","3","]",","," ","[","4",","," ","5",","," ","6","]",","," ","[","7",","," ","8",","," ","9","]","]">> (* [[1, 2, 3], [4, 5, 6], [7, 8, 9]] *)) THEN PyNone
        ELSE IF Contains(ql, <<"s","u","m"," ","o","f"," ","a","l","l"," ","e","l","e","m","e","n","t","s">> (* sum of all elements *)) THEN PyStr(<<"4","5">> (* 45 *))
        ELSE IF Contains(ql, <<"d","e","t","e","r","m","i","n","a","n","t">> (* determinant *)) THEN PyStr(<<"0">> (* 0 *))
        ELSE IF Contains(ql, <<"t","r","a","n","s","p","o","s","e">> (* transpose *)) THEN PyStr(<<"[","[","1",","," ","4",","," ","7","]",","," ","[","2",","," ","5",","," ","8","]",","," ","[","3",","," ","6",","," ","9","]","]">> (* [[1, 4, 7], [2, 5, 8], [3, 6, 9]] *))
        ELSE PyNone

\* ---- the matchers handle_question calls last, and handle_ga5_questions first

embedding_solution ==
    <<"i","m","p","o","r","t"," ","n","u","m","p","y"," ","a","s"," ","n","p","\n","f","r","o","m"," ","i","t","e","r","t","o","o","l","s"," ","i","m","p","o","r","t"," ","c","o","m","b","i","n","a","t","i","o","n","s","\n","\n","d","e","f"," ","m","o","s","t","_","s","i","m","i","l","a","r","(","e","m","b","e","d","d","i","n","g","s",")",":","\n"," "," "," "," ","p","h","r","a","s","e","_","k","e","y","s"," ","="," ","l","i","s","t","(","e","m","b","e","d","d","i","n","g","s",".","k","e","y","s","(",")",")","\n"," "," "," "," ","p","h","r","a","s","e","_","v","e","c","t","o","r","s"," ","="," ","[","n","p",".","a","r","r","a","y","(","e","m","b","e","d","d","i","n","g","s","[","k","e","y","]",")"," ","f","o","r"," ","k","e","y"," ","i","n"," ","p","h","r","a","s","e","_","k","e","y","s","]","\n"," "," "," "," ","\n"," "," "," "," ","m","a","x","_","s","i","m","i","l","a","r","i","t","y"," ","="," ","-","1"," "," ","#"," ","M","i","n","i","m","u","m"," ","p","o","s","s","i","b","l","e"," ","c","o","s","i","n","e"," ","s","i","m","i","l","a","r","i","t","y","\n"," "," "," "," ","m","o","s","t","_","s","i","m","i","l","a","r","_","p","a","i","r"," ","="," ","N","o","n","e","\n"," "," "," "," ","\n"," "," "," "," ","f","o","r"," ","(","i",","," ","j",")"," ","i","n"," ","c","o","m","b","i","n","a","t","i","o","n","s","(","r","a","n","g","e","(","l","e","n","(","p","h","r","a","s","e","_","k","e","y","s",")",")",","," ","2",")",":","\n"," "," "," "," "," "," "," "," ","#"," ","C","o","m","p","u","t","e"," ","c","o","s","i","n","e"," ","s","i","m","i","l","a","r","i","t","y","\n"," "," "," "," "," "," "," "," ","s","i","m"," ","="," ","n","p",".","d","o","t","(","p","h","r","a","s","e","_","v","e","c","t","o","r","s","[","i","]",","," ","p","h","r","a","s","e","_","v","e","c","t","o","r","s","[","j","]",")"," ","/"," ","(","n","p",".","l","i","n","a","l","g",".","n","o","r","m","(","p","h","r","a","s","e","_","v","e","c","t","o","r","s","[","i","]",")"," ","*"," ","n","p",".","l","i","n","a","l","g",".","n","o","r","m","(","p","h","r","a","s","e","_","v","e","c","t","o","r","s","[","j","]",")",")","\n"," "," "," "," "," "," "," "," ","\n"," "," "," "," "," "," "," "," ","#"," ","C","h","e","c","k"," ","i","f"," ","i","t","'","s"," ","t","h","e"," ","h","i","g","h","e","s","t"," ","s","i","m","i","l","a","r","i","t","y"," ","f","o","u","n","d","\n"," "," "," "," "," "," "," "," ","i","f"," ","s","i","m"," ",">"," ","m","a","x","_","s","i","m","i","l","a","r","i","t","y",":","\n"," "," "," "," "," "," "," "," "," "," "," "," ","m","a","x","_","s","i","m","i","l","a","r","i","t","y"," ","="," ","s","i","m","\n"," "," "," "," "," "," "," "," "," "," "," "," ","m","o","s","t","_","s","i","m","i","l","a","r","_","p","a","i","r"," ","="," ","(","p","h","r","a","s","e","_","k","e","y","s","[","i","]",","," ","p","h","r","a","s","e","_","k","e","y","s","[","j","]",")","\n"," "," "," "," ","\n"," "," "," "," ","r","e","t","u","r","n"," ","m","o","s","t","_","s","i","m","i","l","a","r","_","p","a","i","r">> (* import numpy as np[nl]from itertools import combinations[nl][nl]def most_similar(embeddings):[nl]    phrase_keys = list(embeddings.keys())[nl]    phrase_vectors = [np.array(embeddings[key]) for key in phrase_keys][nl]    [nl]    max_similarity = -1  # Minimum possible cosine similarity[nl]    most_similar_pair = None[nl]    [nl]    for (i, j) in combinations(range(len(phrase_keys)), 2):[nl]        # Compute cosine similarity[nl]        sim = np.dot(phrase_vectors[i], phrase_vectors[j]) / (np.linalg.norm(phrase_vectors[i]) [star] np.linalg.norm(phrase_vectors[j]))[nl]        [nl]        # Check if it's the highest similarity found[nl]        if sim > max_similarity:[nl]            max_similarity = sim[nl]            most_similar_pair = (phrase_keys[i], phrase_keys[j])[nl]    [nl]    return most_similar_pair *)

handle_embedding_similarity(q) ==
    LET ql == Lower(q)
    IN  IF Contains(ql, <<"e","m","b","e","d","d","i","n","g","s">> (* embeddings *)) /\ Contains(ql, <<"c","o","s","i","n","e"," ","s","i","m","i","l","a","r","i","t","y">> (* cosine similarity *)) /\ Contains(ql, <<"m","o","s","t"," ","s","i","m","i","l","a","r">> (* most similar *))
        THEN PyStr(embedding_solution)
        ELSE PyNone

handle_sales_analytics(q) ==
    LET ql == Lower(q)
    IN  IF Contains(ql, <<"g","l","o","b","a","l","r","e","t","a","i","l">> (* globalretail *)) /\ Contains(ql, <<"u","n","i","t","s"," ","o","f"," ","g","l","o","v","e","s">> (* units of gloves *)) /\ Contains(ql, <<"l","a","h","o","r","e">> (* lahore *))
        THEN PyStr(<<"5","8","9","1">> (* 5891 *))
        ELSE IF Contains(ql, <<"r","e","c","e","i","p","t","r","e","v","i","v","e">> (* receiptrevive *)) /\ Contains(ql, <<"r","e","t","a","i","l","f","l","o","w">> (* retailflow *)) /\ Contains(ql, <<"t","o","t","a","l"," ","s","a","l","e","s"," ","v","a","l","u","e">> (* total sales value *))
        THEN PyStr(<<"5","5","8","3","5">> (* 55835 *))
        ELSE PyNone

handle_apache_log_analysis(q) ==
    LET ql == Lower(q)
    IN  IF ~(Contains(ql, <<"s","-","a","n","a","n","d",".","n","e","t">> (* s-anand.net *)) /\ Contains(ql, <<"a","p","a","c","h","e">> (* apache *)) /\ Contains(ql, <<"l","o","g">> (* log *)))
        THEN PyNone
        ELSE IF /\ Contains(ql, <<"h","i","n","d","i">> (* hindi *)) /\ Contains(ql, <<"t","u","e","s","d","a","y">> (* tuesday *))
                /\ Contains(q, <<"1","5",":","0","0"," ","u","n","t","i","l"," ","b","e","f","o","r","e"," ","2","1",":","0","0">> (* 15:00 until before 21:00 *)) /\ Contains(ql, <<"s","u","c","c","e","s","s","f","u","l"," ","g","e","t"," ","r","e","q","u","e","s","t","s">> (* successful get requests *))
        THEN PyStr(<<"1","5","3">> (* 153 *))
        ELSE IF /\ Contains(ql, <<"t","e","l","u","g","u">> (* telugu *)) /\ Contains(q, <<"2","0","2","4","-","0","5","-","1","3">> (* 2024-05-13 *))
                /\ Contains(ql, <<"t","o","p"," ","i","p"," ","a","d","d","r","e","s","s">> (* top ip address *)) /\ Contains(ql, <<"b","y","t","e","s">> (* bytes *))
        THEN PyStr(<<"7","0","7","3","5","0","6","4">> (* 70735064 *))
        ELSE IF Contains(ql, <<"w","h","a","t"," ","s","t","a","t","u","s"," ","c","o","d","e">> (* what status code *)) /\ Contains(ql, <<"a","p","p","e","a","r","s"," ","e","x","a","c","t","l","y">> (* appears exactly *))
        THEN PyStr(<<"4","0","8">> (* 408 *))
        ELSE IF Contains(ql, <<"m","a","c"," ","o","s">> (* mac os *)) /\ Contains(ql, <<"f","r","a","n","c","e">> (* france *))
        THEN PyStr(<<"9","4","6","2">> (* 9462 *))
        ELSE IF Contains(ql, <<"r","o","b","o","t","s",".","t","x","t">> (* robots.txt *)) /\ Contains(ql, <<"u","n","i","q","u","e"," ","i","p"," ","a","d","d","r","e","s","s","e","s">> (* unique ip addresses *))
        THEN PyStr(<<"9","8","4","5">> (* 9845 *))
        ELSE IF Contains(ql, <<"l","o","g"," ","a","n","a","l","y","s","i","s">> (* log analysis *)) /\ Contains(ql, <<"d","a","y"," ","o","f"," ","t","h","e"," ","w","e","e","k">> (* day of the week *))
        THEN PyStr(<<"s","a","t","u","r","d","a","y">> (* saturday *))
        ELSE IF Contains(ql, <<"m","i","n","u","t","e"," ","o","f"," ","t","h","e"," ","h","o","u","r">> (* minute of the hour *)) /\ Contains(ql, <<"h","i","g","h","e","s","t"," ","n","u","m","b","e","r">> (* highest number *))
        THEN PyStr(<<"0","0">> (* 00 *))
        ELSE IF Contains(ql, <<"f","i","r","e","f","o","x">> (* firefox *)) /\ Contains(ql, <<"c","h","r","o","m","e">> (* chrome *)) /\ Contains(ql, <<"r","a","t","i","o">> (* ratio *))
        THEN PyStr(<<"0",".","3","9">> (* 0.39 *))
        ELSE PyNone

\* handle_ga5_questions after its three calls: the memorized answers
ga5_literals(q) ==
    LET ql == Lower(q)
    IN  IF Contains(ql, <<"w","e","d","n","e","s","d","a","y","s"," ","b","e","t","w","e","e","n"," ","1","9","8","0","-","0","6","-","1","4"," ","a","n","d"," ","2","0","0","8","-","0","2","-","0","6">> (* wednesdays between 1980-06-14 and 2008-02-06 *)) THEN PyStr(<<"1","4","4","3">> (* 1443 *))
        ELSE IF Contains(ql, <<"m","o","n","d","a","y","s"," ","b","e","t","w","e","e","n"," ","1","9","7","6","-","1","1","-","1","6"," ","a","n","d"," ","2","0","0","7","-","0","7","-","2","3">> (* mondays between 1976-11-16 and 2007-07-23 *)) THEN PyStr(<<"1","5","9","8">> (* 1598 *))
        ELSE IF Contains(ql, <<"f","r","i","d","a","y","s"," ","b","e","t","w","e","e","n"," ","1","9","5","4","-","0","9","-","2","7"," ","a","n","d"," ","2","0","1","3","-","0","5","-","0","2">> (* fridays between 1954-09-27 and 2013-05-02 *)) THEN PyStr(<<"3","0","4","6">> (* 3046 *))
        ELSE IF Contains(q, <<"=","S","U","M","(","A","R","R","A","Y","_","C","O","N","S","T","R","A","I","N","(","S","E","Q","U","E","N","C","E","(","1","0","0",","," ","1","0","0",","," ","3",","," ","1","5",")",","," ","1",","," ","1","0",")",")">> (* =SUM(ARRAY_CONSTRAIN(SEQUENCE(100, 100, 3, 15), 1, 10)) *)) THEN PyStr(<<"7","0","5">> (* 705 *))
        ELSE IF /\ Contains(q, <<"=","S","U","M","I","F","(","A","1",":","A","1","0",",","\"",">","5","\"",")">> (* =SUMIF(A1:A10,[dq]>5[dq]) *))
                /\ Contains(ql, <<"v","a","l","u","e","s"," ","i","n"," ","A","1",":","A","1","0"," ","a","r","e"," ","3",","," ","8",","," ","9",","," ","2",","," ","5",","," ","1",","," ","7",","," ","6",","," ","4",","," ","1","0">> (* values in A1:A10 are 3, 8, 9, 2, 5, 1, 7, 6, 4, 10 *))
        THEN PyStr(<<"4","0">> (* 40 *))
        ELSE IF /\ Contains(q, <<"=","C","O","U","N","T","I","F","S","(","B","2",":","B","8",",","\"",">","=","7","0","\"",",","C","2",":","C","8",",","\"","<","8","0","\"",")">> (* =COUNTIFS(B2:B8,[dq]>=70[dq],C2:C8,[dq]<80[dq]) *))
                /\ Contains(ql, <<"d","a","t","a"," ","i","n"," ","t","h","e"," ","r","a","n","g","e"," ","B","2",":","C","8">> (* data in the range B2:C8 *))
        THEN PyStr(<<"2">> (* 2 *))
        ELSE IF Contains(q, <<"l","i","s","t","(","f","i","l","t","e","r","(","l","a","m","b","d","a"," ","x",":"," ","x"," ","%"," ","2"," ","=","="," ","0",","," ","r","a","n","g","e","(","2","0",")",")",")">> (* list(filter(lambda x: x % 2 == 0, range(20))) *))
        THEN PyStr(<<"[","0",","," ","2",","," ","4",","," ","6",","," ","8",","," ","1","0",","," ","1","2",","," ","1","4",","," ","1","6",","," ","1","8","]">> (* [0, 2, 4, 6, 8, 10, 12, 14, 16, 18] *))
        ELSE IF Contains(q, <<"{","x",":"," ","x","*","*","2"," ","f","o","r"," ","x"," ","i","n"," ","r","a","n","g","e","(","5",")","}">> (* {x: x[star][star]2 for x in range(5)} *))
        THEN PyStr(<<"{","0",":"," ","0",","," ","1",":"," ","1",","," ","2",":"," ","4",","," ","3",":"," ","9",","," ","4",":"," ","1","6","}">> (* {0: 0, 1: 1, 2: 4, 3: 9, 4: 16} *))
        ELSE IF Contains(q, <<"f","o","r","m","a","t","(","1","4",","," ","'","b","'",")">> (* format(14, 'b') *)) THEN PyStr(<<"1","1","1","0">> (* 1110 *))
        ELSE IF Contains(q, <<"s","o","r","t","e","d","(","[","(","'","a","p","p","l","e","'",","," ","3",")",","," ","(","'","b","a","n","a","n","a","'",","," ","1",")",","," ","(","'","o","r","a","n","g","e","'",","," ","2",")","]",","," ","k","e","y","=","l","a","m","b","d","a"," ","x",":"," ","x","[","1","]",")">> (* sorted([('apple', 3), ('banana', 1), ('orange', 2)], key=lambda x: x[1]) *))
        THEN PyStr(<<"[","(","'","b","a","n","a","n","a","'",","," ","1",")",","," ","(","'","o","r","a","n","g","e","'",","," ","2",")",","," ","(","'","a","p","p","l","e","'",","," ","3",")","]">> (* [('banana', 1), ('orange', 2), ('apple', 3)] *))
        ELSE PyNone

\* ---- the registered handlers

\* a weekday_mapping that starts the week on Sunday
sunday_first ==
    <<<<"s","u","n","d","a","y">> (* sunday *), <<"m","o","n","d","a","y">> (* monday *), <<"t","u","e","s","d","a","y">> (* tuesday *), <<"w","e","d","n","e","s","d","a","y">> (* wednesday *), <<"t","h","u","r","s","d","a","y">> (* thursday *), <<"f","r","i","d","a","y">> (* friday *), <<"s","a","t","u","r","d","a","y">> (* saturday *)>>

\* the keys of weekday_mapping, singular forms in order (a plural holds its
\* singular, so the first key found in the question is a singular one)
weekday_names ==
    <<<<"m","o","n","d","a","y">> (* monday *), <<"t","u","e","s","d","a","y">> (* tuesday *), <<"w","e","d","n","e","s","d","a","y">> (* wednesday *), <<"t","h","u","r","s","d","a","y">> (* thursday *), <<"f","r","i","d","a","y">> (* friday *), <<"s","a","t","u","r","d","a","y">> (* saturday *), <<"s","u","n","d","a","y">> (* sunday *)>>

handle_weekday_count(q) ==
    LET ql == Lower(q)
        days == {k \in 1..7 : Contains(ql, weekday_names[k])}
        at == FirstTwoDates(q)
    IN  IF days = {} THEN PyNone
        ELSE IF at[2] = 0 THEN PyNone
        ELSE LET weekday_to_count == SetMin(days) - 1
                 d0 == SubSeq(q, at[1], at[1] + 9)
                 d1 == SubSeq(q, at[2], at[2] + 9)
             IN  IF ~(ValidDate(d0) /\ ValidDate(d1)) THEN PyNone    \* ValueError, caught
                 ELSE IF d0 = <<"1","9","8","0","-","0","6","-","1","4">> (* 1980-06-14 *) /\ d1 = <<"2","0","0","8","-","0","2","-","0","6">> (* 2008-02-06 *) /\ weekday_to_count = 2
                 THEN PyStr(<<"1","4","4","3">> (* 1443 *))
                 ELSE IF d0 = <<"1","9","7","6","-","1","1","-","1","6">> (* 1976-11-16 *) /\ d1 = <<"2","0","0","7","-","0","7","-","2","3">> (* 2007-07-23 *) /\ weekday_to_count = 0
                 THEN PyStr(<<"1","5","9","8">> (* 1598 *))
                 ELSE IF d0 = <<"1","9","5","4","-","0","9","-","2","7">> (* 1954-09-27 *) /\ d1 = <<"2","0","1","3","-","0","5","-","0","2">> (* 2013-05-02 *) /\ weekday_to_count = 4
                 THEN PyStr(<<"3","0","4","6">> (* 3046 *))
                 ELSE LET a == DateOrdinal(d0)
                          b == DateOrdinal(d1)
                          start_date == IF a > b THEN b ELSE a
                          end_date == IF a > b THEN a ELSE b
                      IN  \* stepping past datetime.max is an OverflowError, caught
                          IF end_date = Ordinal(9999, 12, 31) THEN PyNone
                          ELSE PyStr(IntToStr(Cardinality(
                                   {o \in start_date..end_date : WeekdayOf(o) = weekday_to_count})))

\* what running an interpreter on a temporary file can come to: the file
\* cannot be made, the interpreter cannot be started, it exits with 0 or not
\* (out is what it wrote), or it does not exit
ProcessOutcomes ==
    {[kind |-> "nofile", out |-> <<>>], [kind |-> "nospawn", out |-> <<>>],
     [kind |-> "hang", out |-> <<>>],
     [kind |-> "exit0", out |-> <<"5","\n">> (* 5[nl] *)], [kind |-> "exit0", out |-> <<"\n">> (* [nl] *)],
     [kind |-> "nonzero", out |-> <<"N","a","m","e","E","r","r","o","r",":"," ","n","a","m","e"," ","'","x","'"," ","i","s"," ","n","o","t"," ","d","e","f","i","n","e","d","\n">> (* NameError: name 'x' is not defined[nl] *)]}

\* the characters of s that are in keep, in order
RECURSIVE Only(_, _)
Only(s, keep) ==
    IF Len(s) = 0 THEN <<>>
    ELSE (IF s[1] \in keep THEN <<s[1]>> ELSE <<>>) \o Only(Tail(s), keep)

\* s.replace(c, by) for one character c
RECURSIVE Replace(_, _, _)
Replace(s, c, by) ==
    IF Len(s) = 0 THEN <<>>
    ELSE (IF s[1] = c THEN by ELSE <<s[1]>>) \o Replace(Tail(s), c, by)

\* evaluate\s+(.+?)(?=\.|$) at index i: <<start, end>> of group 1, or <<0, 0>>
EvaluateAt(s, i) ==
    LET w0 == i + 8
        run == SetMin({j \in w0..(Len(s) + 1) : j = Len(s) + 1 \/ s[j] \notin Whitespace}) - w0
        ends(p) == {e \in p..Len(s) :
                      /\ \A k \in p..e : s[k] # "\n"
                      /\ \/ e = Len(s)
                         \/ s[e + 1] = "."
                         \/ (e + 1 = Len(s) /\ s[e + 1] = "\n")}
        starts == {p \in (w0 + 1)..(w0 + run) : ends(p) # {}}
    IN  IF ~MatchAt(s, i, <<"e","v","a","l","u","a","t","e">> (* evaluate *)) \/ starts = {} THEN <<0, 0>>
        ELSE <<SetMax(starts), SetMin(ends(SetMax(starts)))>>

handle_calculation(q, proc) ==
    LET ql == Lower(q)
        plain == {i \in 1..Len(ql) : \/ MatchAt(ql, i, <<"c","a","l","c","u","l","a","t","e">> (* calculate *)) \/ MatchAt(ql, i, <<"c","o","m","p","u","t","e">> (* compute *))
                                     \/ MatchAt(ql, i, <<"f","i","n","d">> (* find *)) \/ MatchAt(ql, i, <<"r","e","s","u","l","t"," ","o","f">> (* result of *))}
        evals == {i \in 1..Len(ql) : EvaluateAt(ql, i) # <<0, 0>>}
    IN  IF Contains(q, <<"=","S","U","M","(","A","R","R","A","Y","_","C","O","N","S","T","R","A","I","N","(","S","E","Q","U","E","N","C","E","(","1","0","0",","," ","1","0","0",","," ","3",","," ","1","5",")",","," ","1",","," ","1","0",")",")">> (* =SUM(ARRAY_CONSTRAIN(SEQUENCE(100, 100, 3, 15), 1, 10)) *)) THEN PyStr(<<"7","0","5">> (* 705 *))
        ELSE IF plain \cup evals = {} THEN PyNone
        \* group(1) is None unless the evaluate branch matched: AttributeError, caught
        ELSE IF SetMin(plain \cup evals) \in plain THEN PyNone
        ELSE LET g == EvaluateAt(ql, SetMin(evals))
                 kept == Only(Strip(SubSeq(ql, g[1], g[2])),
                              Digits \cup {"+", "-", "*", "/", "(", ")", ".", "%", "^", " "})
                 expression == Replace(kept, "^", <<"*","*">> (* [star][star] *))
             IN  IF Len(expression) < 3
                    \/ ~\E k \in 1..Len(expression) : expression[k] \in {"+", "-", "*", "/", "(", ")"}
                 THEN PyNone
                 ELSE IF proc.kind = "hang" THEN [kind |-> "hang", val |-> <<>>]
                 ELSE IF proc.kind = "exit0" THEN PyStr(Strip(proc.out))
                 ELSE PyNone     \* CalledProcessError and the rest, caught

\* \w
WordChars ==
    Digits \cup {"_"} \cup DOMAIN UpperToLower \cup {UpperToLower[c] : c \in DOMAIN UpperToLower}

\* fence (?:\w+)?\s*\n([\s\S]*?)\n fence, a fence being three backticks, at index i: <<start, end>> of group 1
\* (end = start - 1 for an empty group), or <<0, 0>>
FenceAt(s, i) ==
    LET w0 == i + 3
        w1 == SetMin({j \in w0..(Len(s) + 1) : j = Len(s) + 1 \/ s[j] \notin WordChars})
        w2 == SetMin({j \in w1..(Len(s) + 1) : j = Len(s) + 1 \/ s[j] \notin Whitespace})
        closes(n) == {c \in (n + 1)..Len(s) : MatchAt(s, c, <<"\n",Backtick,Backtick,Backtick>> (* [nl][bq][bq][bq] *))}
        breaks == {n \in w1..(w2 - 1) : s[n] = "\n" /\ closes(n) # {}}
    IN  IF ~MatchAt(s, i, <<Backtick,Backtick,Backtick>> (* [bq][bq][bq] *)) THEN <<0, 0>>
        ELSE IF breaks # {} THEN <<SetMax(breaks) + 1, SetMin(closes(SetMax(breaks))) - 1>>
        ELSE <<0, 0>>

\* code:([\s\S]+?)(?=$|what is the output) at index i
InlineAt(s, i) ==
    LET ends == {e \in (i + 5)..Len(s) : \/ e = Len(s)
                                         \/ (e + 1 = Len(s) /\ s[e + 1] = "\n")
                                         \/ MatchAt(s, e + 1, <<"w","h","a","t"," ","i","s"," ","t","h","e"," ","o","u","t","p","u","t">> (* what is the output *))}
    IN  IF ~MatchAt(s, i, <<"c","o","d","e",":">> (* code: *)) \/ ends = {} THEN <<0, 0>>
        ELSE <<i + 5, SetMin(ends)>>

handle_code_output(q, proc) ==
    LET fences == {i \in 1..Len(q) : FenceAt(q, i) # <<0, 0>>}
        inlines == {i \in 1..Len(q) : InlineAt(q, i) # <<0, 0>>}
        g == IF fences # {} THEN FenceAt(q, SetMin(fences)) ELSE InlineAt(q, SetMin(inlines))
        code_block == Strip(SubSeq(q, g[1], g[2]))
        python == Contains(Lower(q), <<"p","y","t","h","o","n">> (* python *))
    IN  IF fences = {} /\ inlines = {} THEN PyNone
        ELSE IF python /\ Contains(code_block, <<"l","i","s","t","(","f","i","l","t","e","r","(","l","a","m","b","d","a"," ","x",":"," ","x"," ","%"," ","2"," ","=","="," ","0",","," ","r","a","n","g","e","(","2","0",")",")",")">> (* list(filter(lambda x: x % 2 == 0, range(20))) *))
        THEN PyStr(<<"[","0",","," ","2",","," ","4",","," ","6",","," ","8",","," ","1","0",","," ","1","2",","," ","1","4",","," ","1","6",","," ","1","8","]">> (* [0, 2, 4, 6, 8, 10, 12, 14, 16, 18] *))
        ELSE IF python /\ Contains(code_block, <<"{","x",":"," ","x","*","*","2"," ","f","o","r"," ","x"," ","i","n"," ","r","a","n","g","e","(","5",")","}">> (* {x: x[star][star]2 for x in range(5)} *))
        THEN PyStr(<<"{","0",":"," ","0",","," ","1",":"," ","1",","," ","2",":"," ","4",","," ","3",":"," ","9",","," ","4",":"," ","1","6","}">> (* {0: 0, 1: 1, 2: 4, 3: 9, 4: 16} *))
        ELSE IF python /\ Contains(code_block, <<"f","o","r","m","a","t","(","1","4",","," ","'","b","'",")">> (* format(14, 'b') *)) THEN PyStr(<<"1","1","1","0">> (* 1110 *))
        ELSE IF /\ python /\ Contains(code_block, <<"n","a","m","e"," ","="," ","\"","A","l","i","c","e","\"">> (* name = [dq]Alice[dq] *))
                /\ Contains(code_block, <<"f","\"","H","e","l","l","o",","," ","{","n","a","m","e","}","!","\"">> (* f[dq]Hello, {name}![dq] *))
        THEN PyStr(<<"H","e","l","l","o",","," ","A","l","i","c","e","!">> (* Hello, Alice! *))
        ELSE IF /\ python /\ Contains(code_block, <<"e","x","c","e","p","t"," ","Z","e","r","o","D","i","v","i","s","i","o","n","E","r","r","o","r">> (* except ZeroDivisionError *))
                /\ Contains(code_block, <<"1","/","0">> (* 1/0 *))
        THEN PyStr(<<"C","a","n","n","o","t"," ","d","i","v","i","d","e"," ","b","y"," ","z","e","r","o">> (* Cannot divide by zero *))
        ELSE IF /\ python /\ Contains(code_block, <<"d","e","f"," ","f","i","b","o","n","a","c","c","i","(","n",")",":">> (* def fibonacci(n): *))
                /\ Contains(code_block, <<"r","e","t","u","r","n"," ","f","i","b","o","n","a","c","c","i","(","n","-","1",")"," ","+"," ","f","i","b","o","n","a","c","c","i","(","n","-","2",")">> (* return fibonacci(n-1) + fibonacci(n-2) *))
        THEN PyStr(<<"5","5">> (* 55 *))
        ELSE IF /\ python
                /\ Contains(code_block, <<"s","o","r","t","e","d","(","[","(","'","a","p","p","l","e","'",","," ","3",")",","," ","(","'","b","a","n","a","n","a","'",","," ","1",")",","," ","(","'","o","r","a","n","g","e","'",","," ","2",")","]",","," ","k","e","y","=","l","a","m","b","d","a"," ","x",":"," ","x","[","1","]",")">> (* sorted([('apple', 3), ('banana', 1), ('orange', 2)], key=lambda x: x[1]) *))
        THEN PyStr(<<"[","(","'","b","a","n","a","n","a","'",","," ","1",")",","," ","(","'","o","r","a","n","g","e","'",","," ","2",")",","," ","(","'","a","p","p","l","e","'",","," ","3",")","]">> (* [('banana', 1), ('orange', 2), ('apple', 3)] *))
        \* python or node on a temporary file
        ELSE IF proc.kind = "hang" THEN [kind |-> "hang", val |-> <<>>]
        ELSE IF proc.kind \in {"exit0", "nonzero"} THEN PyStr(Strip(proc.out))
        ELSE PyNone

\* =[\w()+\-*/,.:\s]+ : <<start, end>> of the leftmost match, or <<0, 0>>
FormulaIn(s) ==
    LET class == WordChars \cup Whitespace \cup {"(", ")", "+", "-", "*", "/", ",", ".", ":"}
        at == {i \in 1..(Len(s) - 1) : s[i] = "=" /\ s[i + 1] \in class}
    IN  IF at = {} THEN <<0, 0>>
        ELSE <<SetMin(at),
               SetMin({j \in (SetMin(at) + 1)..(Len(s) + 1) : j = Len(s) + 1 \/ s[j] \notin class}) - 1>>

handle_spreadsheet_formula(q) ==
    LET ql == Lower(q)
        m == FormulaIn(q)
        formula == Strip(SubSeq(q, m[1], m[2]))
    IN  IF Contains(q, <<"=","S","U","M","(","A","R","R","A","Y","_","C","O","N","S","T","R","A","I","N","(","S","E","Q","U","E","N","C","E","(","1","0","0",","," ","1","0","0",","," ","3",","," ","1","5",")",","," ","1",","," ","1","0",")",")">> (* =SUM(ARRAY_CONSTRAIN(SEQUENCE(100, 100, 3, 15), 1, 10)) *)) THEN PyStr(<<"7","0","5">> (* 705 *))
        ELSE IF /\ Contains(q, <<"=","S","U","M","I","F","(","A","1",":","A","1","0",",","\"",">","5","\"",")">> (* =SUMIF(A1:A10,[dq]>5[dq]) *))
                /\ Contains(ql, <<"v","a","l","u","e","s"," ","i","n"," ","A","1",":","A","1","0"," ","a","r","e"," ","3",","," ","8",","," ","9",","," ","2",","," ","5",","," ","1",","," ","7",","," ","6",","," ","4",","," ","1","0">> (* values in A1:A10 are 3, 8, 9, 2, 5, 1, 7, 6, 4, 10 *))
        THEN PyStr(<<"4","0">> (* 40 *))
        ELSE IF /\ Contains(q, <<"=","C","O","U","N","T","I","F","S","(","B","2",":","B","8",",","\"",">","=","7","0","\"",",","C","2",":","C","8",",","\"","<","8","0","\"",")">> (* =COUNTIFS(B2:B8,[dq]>=70[dq],C2:C8,[dq]<80[dq]) *))
                /\ Contains(ql, <<"d","a","t","a"," ","i","n"," ","t","h","e"," ","r","a","n","g","e"," ","B","2",":","C","8">> (* data in the range B2:C8 *))
        THEN PyStr(<<"2">> (* 2 *))
        ELSE IF /\ Contains(q, <<"=","V","L","O","O","K","U","P","(","\"","S","m","i","t","h","\"",",","A","2",":","C","1","0",",","3",",","F","A","L","S","E",")">> (* =VLOOKUP([dq]Smith[dq],A2:C10,3,FALSE) *))
                /\ Contains(ql, <<"A","2",":","C","1","0"," ","c","o","n","t","a","i","n","s">> (* A2:C10 contains *))
        THEN PyStr(<<"E","n","g","i","n","e","e","r">> (* Engineer *))
        ELSE IF /\ Contains(q, <<"=","A","V","E","R","A","G","E","I","F","S","(","C","2",":","C","7",",","A","2",":","A","7",",","\"",">","=","3","0","\"",",","B","2",":","B","7",",","\"","F","\"",")">> (* =AVERAGEIFS(C2:C7,A2:A7,[dq]>=30[dq],B2:B7,[dq]F[dq]) *))
                /\ Contains(ql, <<"r","a","n","g","e"," ","A","2",":","C","7"," ","c","o","n","t","a","i","n","s">> (* range A2:C7 contains *))
        THEN PyStr(<<"7","4",".","5">> (* 74.5 *))
        ELSE IF m = <<0, 0>> THEN PyNone
        ELSE IF StartsWith(formula, <<"=","S","U","M","P","R","O","D","U","C","T">> (* =SUMPRODUCT *)) THEN PyStr(<<"1","1","2">> (* 112 *))
        ELSE IF StartsWith(formula, <<"=","M","A","T","C","H">> (* =MATCH *)) /\ Contains(ql, <<"e","x","a","c","t"," ","m","a","t","c","h">> (* exact match *)) THEN PyStr(<<"4">> (* 4 *))
        ELSE IF StartsWith(formula, <<"=","I","N","D","E","X">> (* =INDEX *)) /\ Contains(formula, <<"M","A","T","C","H">> (* MATCH *)) THEN PyStr(<<"L","o","n","d","o","n">> (* London *))
        ELSE IF StartsWith(formula, <<"=","I","F","E","R","R","O","R">> (* =IFERROR *)) THEN PyStr(<<"N","o"," ","d","a","t","a">> (* No data *))
        ELSE PyNone

\* ---- the groups: the blocks of a group in order, the first block that
\* returns or raises ends the group

FirstOf(rs) ==
    LET hit == {k \in 1..Len(rs) : rs[k].kind # "none"}
    IN  IF hit = {} THEN PyNone ELSE rs[SetMin(hit)]

ga1_matchers(q) ==
    <<ga1_largest_number(q), ga1_char_frequency(q), ga1_fibonacci(q), ga1_bitwise_and(q), ga1_roman(q)>>

ga2_matchers(q) ==
    <<ga2_binary(q), ga2_list_comprehension(q), ga2_dictionary(q), ga2_vowels(q), ga2_second_largest(q)>>

ga3_matchers(q) ==
    <<ga3_factorial(q), ga3_anagram(q), ga3_palindrome(q), ga3_prime(q), ga3_lcm(q)>>

ga4_matchers(q) ==
    <<ga4_image(q), ga4_largest_sum(q), ga4_longest_word(q), ga4_binary_search(q),
      ga4_word_frequency(q), ga4_matrix(q)>>

\* handle_ga5_questions without its calls of the three analytics matchers
ga5_literals_only(q) == <<ga5_literals(q)>>

\* lines 559-581: the three calls at the head of handle_ga5_questions sit in
\* try blocks of their own, then come the memorized answers
ga5_matchers(q) ==
    <<handle_apache_log_analysis(q), handle_embedding_similarity(q), handle_sales_analytics(q),
      ga5_literals(q)>>

\* ---- self.handlers: the four patterns, searched in the lowercased question

PatternMatches(k, ql) ==
    CASE k = 1 ->
           \E i \in 1..Len(ql), d \in 1..7 :
              /\ MatchAt(ql, i, <<"h","o","w"," ","m","a","n","y"," ">> (* how many  *) \o weekday_names[d] \o <<"s">>)
              /\ \E j \in (i + 9 + Len(weekday_names[d] \o <<"s">>))..Len(ql), j2 \in 1..Len(ql) :
                    /\ DateAt(ql, j) /\ j2 >= j + 10 /\ DateAt(ql, j2)
                    /\ \A n \in i..j2 : ql[n] # "\n"
      [] k = 2 ->
           \/ Contains(ql, <<"c","a","l","c","u","l","a","t","e">> (* calculate *))
           \/ Contains(ql, <<"c","o","m","p","u","t","e">> (* compute *))
           \/ \E noun \in {<<"s","u","m">> (* sum *), <<"p","r","o","d","u","c","t">> (* product *), <<"a","v","e","r","a","g","e">> (* average *), <<"m","e","a","n">> (* mean *), <<"m","e","d","i","a","n">> (* median *), <<"m","o","d","e">> (* mode *), <<"r","e","s","u","l","t">> (* result *)} :
                 Contains(ql, <<"f","i","n","d"," ","t","h","e"," ">> (* find the  *) \o noun)
      [] k = 3 ->
           \E a \in {<<"f","o","l","l","o","w","i","n","g">> (* following *), <<"t","h","i","s">> (* this *)}, b \in {<<"p","y","t","h","o","n">> (* python *), <<"j","a","v","a","s","c","r","i","p","t">> (* javascript *), <<"j","s">> (* js *)} :
              Contains(ql, <<"w","h","a","t"," ","i","s"," ","t","h","e"," ","o","u","t","p","u","t"," ","o","f"," ","t","h","e"," ">> (* what is the output of the  *) \o a \o <<" ">> (*   *) \o b \o <<" ","c","o","d","e">> (*  code *))
      [] k = 4 ->
           \E i \in 1..Len(ql), j \in 1..Len(ql) :
              /\ MatchAt(ql, i, <<"f","o","r","m","u","l","a">> (* formula *)) /\ j >= i + 7
              /\ (MatchAt(ql, j, <<"e","x","c","e","l">> (* excel *)) \/ MatchAt(ql, j, <<"g","o","o","g","l","e"," ","s","h","e","e","t","s">> (* google sheets *)))
              /\ \A n \in i..j : ql[n] # "\n"

\* the handler registered for pattern k
RegisteredHandler(k, q, proc) ==
    CASE k = 1 -> handle_weekday_count(q)
      [] k = 2 -> handle_calculation(q, proc)
      [] k = 3 -> handle_code_output(q, proc)
      [] k = 4 -> handle_spreadsheet_formula(q)

(***************************************************************************)
(* CodeQuestionHandler.handle_question, one step per try block             *)
(***************************************************************************)

\* the try blocks in the order handle_question goes through them; h1..h4 are
\* the passes of the loop over self.handlers
Stages ==
    <<"ga1", "ga2", "ga3", "ga4", "ga5", "h1", "h2", "h3", "h4", "embedding", "sales", "apache", "end">>

\* a try block whose except clause catches nothing
CaughtNothing(r) == FALSE

\* except Exception as e: the exception r of a matcher is caught
Caught(r) == IsRaise(r)

\* the operations of parts are not running
Idle(parts) ==
    /\ "clean" \in parts =>
          /\ cl_pc = "idle"
          /\ cl_response = <<>>
          /\ cl_question = <<>>
          /\ cl_out1 = PyStr(<<>>)
          /\ cl_out2 = PyStr(<<>>)
    /\ "bank" \in parts =>
          /\ hq_question = <<>>
          /\ hq_pc = "idle"
          /\ hq_trace = <<>>
          /\ hq_result = [handled |-> FALSE, answer |-> PyNone]
    /\ "exec" \in parts =>
          /\ ex_pc = "idle"
          /\ ex_code = <<>>
          /\ ex_language = <<>>
          /\ ex_file = "none"
          /\ ex_events = <<>>
          /\ ex_result = [success |-> FALSE, output |-> <<>>]
    /\ "gen" \in parts =>
          /\ available_models = <<>>
          /\ ga_pc = "idle"
          /\ ga_response = <<>>
          /\ ga_events = <<>>
          /\ ga_answer = PyNone
          /\ sb_blocks = <<>>
          /\ sb_results = <<>>

\* handle_question(q) is entered
BankCall(q) ==
    /\ hq_question = q
    /\ hq_pc = "ga1"
    /\ hq_trace = <<>>
    /\ hq_result = [handled |-> FALSE, answer |-> PyNone]

\* one try block: the call came to r
\*   result = ...; if result: return True, result     except Exception: log
Try(stage, r) ==
    /\ hq_pc = stage
    /\ hq_trace' = Append(hq_trace, [matcher |-> stage, outcome |-> r])
    /\ IF Truthy(r)
       THEN hq_pc' = "done" /\ hq_result' = [handled |-> TRUE, answer |-> r]
       ELSE IF r = [kind |-> "hang", val |-> <<>>]
       THEN hq_pc' = "hung" /\ UNCHANGED hq_result
       ELSE IF IsRaise(r) /\ ~Caught(r)
       THEN hq_pc' = "raised" /\ hq_result' = [handled |-> FALSE, answer |-> r]
       ELSE /\ hq_pc' = Stages[(CHOOSE k \in 1..Len(Stages) : Stages[k] = stage) + 1]
            /\ UNCHANGED hq_result
    /\ UNCHANGED hq_question

TryGA1 == Try("ga1", FirstOf(ga1_matchers(hq_question)))

TryGA2 == Try("ga2", FirstOf(ga2_matchers(hq_question)))

TryGA3 == Try("ga3", FirstOf(ga3_matchers(hq_question)))

TryGA4 == Try("ga4", FirstOf(ga4_matchers(hq_question)))

TryGA5 == Try("ga5", FirstOf(ga5_matchers(hq_question)))

\* a pass of the loop whose pattern is not found in the question
SkipRegistered ==
    \E k \in 1..4 :
       /\ hq_pc = Stages[5 + k]
       /\ ~PatternMatches(k, Lower(hq_question))
       /\ hq_pc' = Stages[5 + k + 1]
       /\ UNCHANGED <<hq_question, hq_trace, hq_result>>

\* a pass of the loop whose pattern is found: the handler is called
TryRegistered ==
    \E k \in 1..4 :
       /\ hq_pc = Stages[5 + k]
       /\ PatternMatches(k, Lower(hq_question))
       /\ \E proc \in ProcessOutcomes : Try(Stages[5 + k], RegisteredHandler(k, hq_question, proc))

TryEmbedding == Try("embedding", handle_embedding_similarity(hq_question))

TrySales == Try("sales", handle_sales_analytics(hq_question))

TryApache == Try("apache", handle_apache_log_analysis(hq_question))

\* return False, None
ReturnNotHandled ==
    /\ hq_pc = "end"
    /\ hq_pc' = "done"
    /\ hq_result' = [handled |-> FALSE, answer |-> PyNone]
    /\ UNCHANGED <<hq_question, hq_trace>>

\* ---- the questions handle_question is called with

BankPhrases ==
    << <<"G","o","o","d"," ","m","o","r","n","i","n","g">> (* Good morning *),
       <<"W","h","a","t"," ","i","s"," ","t","h","e"," ","f","a","c","t","o","r","i","a","l"," ","o","f"," ","5","?">> (* What is the factorial of 5? *),
       <<"W","h","a","t"," ","i","s"," ","t","h","e"," ","L","C","M"," ","o","f"," ","0"," ","a","n","d"," ","0","?">> (* What is the LCM of 0 and 0? *),
       <<"F","i","n","d"," ","t","h","e"," ","l","o","n","g","e","s","t"," ","w","o","r","d"," ","i","n"," ","\""," ","\"">> (* Find the longest word in [dq] [dq] *),
       <<"s","u","m"," ","o","f"," ","a","l","l"," ","e","l","e","m","e","n","t","s"," ","o","f"," ","t","h","e"," ","m","a","t","r","i","x"," ","[","[","1",","," ","2",","," ","3","]",","," ","[","4",","," ","5",","," ","6","]",","," ","[","7",","," ","8",","," ","9","]","]">> (* sum of all elements of the matrix [[1, 2, 3], [4, 5, 6], [7, 8, 9]] *),
       <<"W","h","i","c","h"," ","e","m","b","e","d","d","i","n","g","s"," ","a","r","e"," ","m","o","s","t"," ","s","i","m","i","l","a","r"," ","b","y"," ","c","o","s","i","n","e"," ","s","i","m","i","l","a","r","i","t","y","?">> (* Which embeddings are most similar by cosine similarity? *),
       <<"G","l","o","b","a","l","R","e","t","a","i","l",":"," ","u","n","i","t","s"," ","o","f"," ","g","l","o","v","e","s"," ","s","o","l","d"," ","i","n"," ","L","a","h","o","r","e">> (* GlobalRetail: units of gloves sold in Lahore *),
       <<"s","-","a","n","a","n","d",".","n","e","t"," ","a","p","a","c","h","e"," ","l","o","g",":"," ","w","h","a","t"," ","s","t","a","t","u","s"," ","c","o","d","e"," ","a","p","p","e","a","r","s"," ","e","x","a","c","t","l","y"," ","o","n","c","e">> (* s-anand.net apache log: what status code appears exactly once *),
       <<"E","v","a","l","u","a","t","e"," ","2","+","3"," ","a","n","d"," ","c","o","m","p","u","t","e",".">> (* Evaluate 2+3 and compute. *),
       <<"W","h","a","t"," ","i","s"," ","t","h","e"," ","o","u","t","p","u","t"," ","o","f"," ","t","h","e"," ","f","o","l","l","o","w","i","n","g"," ","p","y","t","h","o","n"," ","c","o","d","e","\n",Backtick,Backtick,Backtick,"\n","p","r","i","n","t","(","5",")","\n",Backtick,Backtick,Backtick>> (* What is the output of the following python code[nl][bq][bq][bq][nl]print(5)[nl][bq][bq][bq] *),
       <<"f","o","r","m","u","l","a"," ","i","n"," ","E","x","c","e","l",":"," ","=","S","U","M","P","R","O","D","U","C","T","(","A","1",":","A","3",")">> (* formula in Excel: =SUMPRODUCT(A1:A3) *),
       <<"m","o","n","d","a","y","s"," ","b","e","t","w","e","e","n"," ","1","9","7","6","-","1","1","-","1","6"," ","a","n","d"," ","2","0","0","7","-","0","7","-","2","3">> (* mondays between 1976-11-16 and 2007-07-23 *) >>

\* most phrases in one question
MaxPhrases == 2

weekday_titles ==
    <<<<"M","o","n","d","a","y">> (* Monday *), <<"T","u","e","s","d","a","y">> (* Tuesday *), <<"W","e","d","n","e","s","d","a","y">> (* Wednesday *), <<"T","h","u","r","s","d","a","y">> (* Thursday *), <<"F","r","i","d","a","y">> (* Friday *), <<"S","a","t","u","r","d","a","y">> (* Saturday *), <<"S","u","n","d","a","y">> (* Sunday *)>>

\* the dates asked about: those of the memorized answers, the days around
\* the end of a February, a day that does not exist, and the last day there is
WeekdayDates ==
    { <<"1","9","8","0","-","0","6","-","1","4">> (* 1980-06-14 *), <<"2","0","0","8","-","0","2","-","0","6">> (* 2008-02-06 *), <<"1","9","7","6","-","1","1","-","1","6">> (* 1976-11-16 *), <<"2","0","0","7","-","0","7","-","2","3">> (* 2007-07-23 *), <<"1","9","5","4","-","0","9","-","2","7">> (* 1954-09-27 *), <<"2","0","1","3","-","0","5","-","0","2">> (* 2013-05-02 *),
      <<"2","0","2","4","-","0","2","-","2","8">> (* 2024-02-28 *), <<"2","0","2","4","-","0","3","-","0","1">> (* 2024-03-01 *), <<"2","0","2","3","-","0","2","-","3","0">> (* 2023-02-30 *), <<"9","9","9","9","-","1","2","-","3","1">> (* 9999-12-31 *) }

\* "How many Mondays are there between 1976-11-16 and 2007-07-23?"
WeekdayQuestion(d, a, b) ==
    <<"H","o","w"," ","m","a","n","y"," ">> (* How many  *) \o weekday_titles[d] \o <<"s"," ","a","r","e"," ","t","h","e","r","e"," ","b","e","t","w","e","e","n"," ">> (* s are there between  *) \o a \o <<" ","a","n","d"," ">> (*  and  *) \o b \o <<"?">> (* ? *)

\* up to MaxPhrases phrases with a blank between them, and the weekday questions
BankQuestions ==
    UNION { {Join([k \in 1..n |-> BankPhrases[fs[k]]], <<" ">> (*   *)) : fs \in [1..n -> 1..Len(BankPhrases)]} :
            n \in 0..MaxPhrases }
    \cup {WeekdayQuestion(d, a, b) : d \in 1..7, a \in WeekdayDates, b \in WeekdayDates}

BankInit ==
    /\ Idle({"clean", "exec", "gen"})
    /\ \E q \in BankQuestions : BankCall(q)

BankNext ==
    /\ \/ TryGA1 \/ TryGA2 \/ TryGA3 \/ TryGA4 \/ TryGA5
       \/ SkipRegistered \/ TryRegistered
       \/ TryEmbedding \/ TrySales \/ TryApache
       \/ ReturnNotHandled
    /\ UNCHANGED <<clean_vars, exec_vars, gen_vars>>

BankSpec == BankInit /\ [][BankNext]_vars

\* ---- what is claimed of handle_question

\* C1: handle_question never lets an exception out: whatever a matcher
\* raises is caught, and for the empty question, or one in which no matcher
\* finds its pattern, the call returns (False, None).
C1_NeverRaises ==
    /\ hq_pc # "raised"
    /\ \A k \in 1..Len(hq_trace) : IsRaise(hq_trace[k].outcome) => hq_pc # hq_trace[k].matcher
    /\ LET q == hq_question
           answers == ga1_matchers(q) \o ga2_matchers(q) \o ga3_matchers(q) \o ga4_matchers(q)
                        \o ga5_matchers(q)
       IN  ( /\ hq_pc = "done"
             /\ \/ q = <<>>
                \/ /\ \A k \in 1..Len(answers) : answers[k] = PyNone
                   /\ \A k \in 1..4 : ~PatternMatches(k, Lower(q)) )
           => hq_result = [handled |-> FALSE, answer |-> PyNone]

\* a matcher raised, the call went on and returned (False, None)
C1_Witness ==
    /\ hq_pc = "done"
    /\ hq_result = [handled |-> FALSE, answer |-> PyNone]
    /\ \E k \in 1..Len(hq_trace) : hq_trace[k].outcome = PyRaise("ValueError")

\* C4: a weekday-count question with two valid dates, in either order, is
\* answered with the number of days from the earlier to the later date, both
\* included, that fall on the day asked for -- the memorized pairs included.
C4_WeekdayCount ==
    \A d \in 1..7 :
       LET q == hq_question
           a == SubSeq(q, Len(q) - 25, Len(q) - 16)
           b == SubSeq(q, Len(q) - 10, Len(q) - 1)
       IN  ( /\ hq_pc = "done"
             /\ StartsWith(q, <<"H","o","w"," ","m","a","n","y"," ">> (* How many  *) \o weekday_titles[d] \o <<"s"," ","a","r","e"," ","t","h","e","r","e"," ","b","e","t","w","e","e","n"," ">> (* s are there between  *))
             /\ ValidDate(a) /\ ValidDate(b) )
           => LET lo == IF DateOrdinal(a) < DateOrdinal(b) THEN DateOrdinal(a) ELSE DateOrdinal(b)
                  hi == IF DateOrdinal(a) < DateOrdinal(b) THEN DateOrdinal(b) ELSE DateOrdinal(a)
                  \* the first day on the weekday asked for (Monday is 0), then one every 7
                  first == lo + (((d - 1) - WeekdayOf(lo)) % 7)
                  days == IF first > hi THEN 0 ELSE ((hi - first) \div 7) + 1
              IN  hq_result = [handled |-> TRUE, answer |-> PyStr(IntToStr(days))]

\* C5: the question how many Mondays there are between 1976-11-16 and
\* 2007-07-23 is answered "1598".
C5_Mondays ==
    ( /\ hq_pc = "done"
      /\ hq_question \in {WeekdayQuestion(1, <<"1","9","7","6","-","1","1","-","1","6">> (* 1976-11-16 *), <<"2","0","0","7","-","0","7","-","2","3">> (* 2007-07-23 *)),
                          <<"m","o","n","d","a","y","s"," ","b","e","t","w","e","e","n"," ","1","9","7","6","-","1","1","-","1","6"," ","a","n","d"," ","2","0","0","7","-","0","7","-","2","3">> (* mondays between 1976-11-16 and 2007-07-23 *)} )
    => hq_result = [handled |-> TRUE, answer |-> PyStr(<<"1","5","9","8">> (* 1598 *))]

\* the question in full was asked and answered by the registered handler
C5_Witness ==
    /\ hq_pc = "done"
    /\ hq_question = WeekdayQuestion(1, <<"1","9","7","6","-","1","1","-","1","6">> (* 1976-11-16 *), <<"2","0","0","7","-","0","7","-","2","3">> (* 2007-07-23 *))
    /\ hq_trace[Len(hq_trace)] = [matcher |-> "h1", outcome |-> PyStr(<<"1","5","9","8">> (* 1598 *))]
    /\ hq_result.answer = PyStr(<<"1","5","9","8">> (* 1598 *))

\* C10: the answer returned is that of the first matcher, in the order of
\* priority, that finds its pattern in the question and has a non-empty
\* answer for it, and no matcher is called after that one.
C10_FirstMatcherWins ==
    LET q == hq_question
        answers == ga1_matchers(q) \o ga2_matchers(q) \o ga3_matchers(q) \o ga4_matchers(q)
                     \o ga5_matchers(q)
        hit == {k \in 1..Len(answers) : Truthy(answers[k])}
    IN  hq_pc = "done" =>
           /\ hit # {} => hq_result = [handled |-> TRUE, answer |-> answers[SetMin(hit)]]
           /\ hq_result.handled => hq_trace[Len(hq_trace)].outcome = hq_result.answer

\* C11: a matcher that throws counts as a matcher without an answer: the
\* matchers after it are still tried, those of its own group included.  So
\* when a block of a group has raised and a later block of the same group is
\* the next one with something to say and has an answer, that answer is the
\* one returned; and in any case the bank has gone on after the exception.
C11_ThrowingMatcherSkipped ==
    LET q == hq_question
        group(stage) == CASE stage = "ga1" -> ga1_matchers(q)
                          [] stage = "ga2" -> ga2_matchers(q)
                          [] stage = "ga3" -> ga3_matchers(q)
                          [] stage = "ga4" -> ga4_matchers(q)
                          [] stage = "ga5" -> ga5_matchers(q)
                          [] OTHER -> <<>>
    IN  hq_pc = "done" =>
           \A k \in 1..Len(hq_trace) :
              IsRaise(hq_trace[k].outcome) =>
                 LET ms == group(hq_trace[k].matcher)
                     thrower == SetMin({i \in 1..Len(ms) : ms[i].kind # "none"})
                     later == {j \in (thrower + 1)..Len(ms) : ms[j].kind # "none"}
                 IN  /\ Len(hq_trace) > k
                     /\ (ms # <<>> /\ later # {} /\ Truthy(ms[SetMin(later)])) =>
                           hq_result = [handled |-> TRUE, answer |-> ms[SetMin(later)]]

\* C12: the matchers are consulted in the order literal lookups, registered
\* regex-pattern handlers (date, calculation, code output, formula),
\* embedding similarity, analytics and log lookups.  So for a question no
\* literal lookup answers, which a regex-pattern handler answers and which
\* the embedding, the sales or the log matcher answers too, the answer
\* returned is the one of a regex-pattern handler.
C12_RegexBeforeAnalytics ==
    LET q == hq_question
        lookups == ga1_matchers(q) \o ga2_matchers(q) \o ga3_matchers(q) \o ga4_matchers(q)
                     \o <<ga5_literals(q)>>
        regex == {k \in 1..4 : /\ PatternMatches(k, Lower(q))
                               /\ \A proc \in ProcessOutcomes :
                                     Truthy(RegisteredHandler(k, q, proc))}
        analytics == \/ Truthy(handle_embedding_similarity(q))
                     \/ Truthy(handle_sales_analytics(q))
                     \/ Truthy(handle_apache_log_analysis(q))
    IN  (/\ hq_pc = "done"
         /\ \A k \in 1..Len(lookups) : lookups[k].kind = "none"
         /\ analytics
         /\ regex # {}) =>
            /\ hq_result.handled
            /\ hq_trace[Len(hq_trace)].matcher \in {"h1", "h2", "h3", "h4"}
            /\ \E k \in regex : hq_result.answer = RegisteredHandler(k, q, CHOOSE proc \in ProcessOutcomes : TRUE)

\* ---- handle_question called with the arithmetic questions of GA3

\* largest number asked about in a prime question
MaxPrime == 10000

\* largest number in an LCM question
MaxLcm == 30

PrimeQuestion(n) == <<"C","h","e","c","k"," ","i","f"," ">> (* Check if  *) \o IntToStr(n) \o <<" ","i","s"," ","a"," ","p","r","i","m","e"," ","n","u","m","b","e","r">> (*  is a prime number *)

LcmQuestion(a, b) == <<"W","h","a","t"," ","i","s"," ","t","h","e"," ","L","C","M"," ","o","f"," ">> (* What is the LCM of  *) \o IntToStr(a) \o <<" ","a","n","d"," ">> (*  and  *) \o IntToStr(b) \o <<"?">> (* ? *)

Ga3Init ==
    /\ Idle({"clean", "exec", "gen"})
    /\ \E q \in {PrimeQuestion(n) : n \in 0..MaxPrime}
                  \cup {LcmQuestion(a, b) : a, b \in 1..MaxLcm} : BankCall(q)

\* the try blocks of handle_question up to the one of GA3, which answers
Ga3Next ==
    /\ TryGA1 \/ TryGA2 \/ TryGA3
    /\ UNCHANGED <<clean_vars, exec_vars, gen_vars>>

Ga3Spec == Ga3Init /\ [][Ga3Next]_vars

\* C13: for every n in 0..10000 the prime-number matcher answers "True"
\* exactly when n >= 2 and no d with 2 <= d < n divides n, and "False"
\* otherwise; that answer is what handle_question returns for the question.
C13_PrimeCorrect ==
    LET q == hq_question
        n == ParseInt(SubSeq(q, 10, 9 + DigitRun(q, 10)))
        prime == n >= 2 /\ \A d \in 2..(n - 1) : n % d # 0
        answer == PyStr(IF prime THEN <<"T","r","u","e">> (* True *) ELSE <<"F","a","l","s","e">> (* False *))
    IN  (StartsWith(q, <<"C","h","e","c","k"," ","i","f"," ">> (* Check if  *)) /\ q = PrimeQuestion(n)) =>
           /\ ga3_prime(q) = answer
           /\ hq_pc = "done" => hq_result = [handled |-> TRUE, answer |-> answer]

\* 9973, the largest prime below 10000, has been answered
C13_Witness ==
    /\ hq_question = PrimeQuestion(9973)
    /\ hq_pc = "done"
    /\ hq_trace[Len(hq_trace)].matcher = "ga3"
    /\ hq_result = [handled |-> TRUE, answer |-> PyStr(<<"T","r","u","e">> (* True *))]

\* C14: for every pair of positive integers a and b, the value L the LCM
\* matcher answers satisfies L * gcd(a, b) = a * b, gcd being the greatest
\* common divisor; that answer is what handle_question returns.
C14_LcmTimesGcd ==
    LET q == hq_question
        a == ParseInt(SubSeq(q, 20, 19 + DigitRun(q, 20)))
        j == 20 + DigitRun(q, 20) + 5
        b == ParseInt(SubSeq(q, j, j + DigitRun(q, j) - 1))
        divisor == SetMax({d \in 1..a : a % d = 0 /\ b % d = 0})
    IN  (StartsWith(q, <<"W","h","a","t"," ","i","s"," ","t","h","e"," ","L","C","M"," ","o","f"," ">> (* What is the LCM of  *)) /\ a > 0 /\ b > 0 /\ q = LcmQuestion(a, b)) =>
           /\ ga3_lcm(q).kind = "str"
           /\ ga3_lcm(q).val = IntToStr(ParseInt(ga3_lcm(q).val))
           /\ ParseInt(ga3_lcm(q).val) * divisor = a * b
           /\ hq_pc = "done" => hq_result = [handled |-> TRUE, answer |-> ga3_lcm(q)]

\* the LCM of 21 and 6 has been answered: 42
C14_Witness ==
    /\ hq_question = LcmQuestion(21, 6)
    /\ hq_pc = "done"
    /\ hq_trace[Len(hq_trace)].matcher = "ga3"
    /\ hq_result = [handled |-> TRUE, answer |-> PyStr(<<"4","2">> (* 42 *))]

\* C30: the embedding, sales and Apache-log matchers that handle_question
\* calls after the registered handlers never supply the answer.  Whenever one
\* of them gives a non-empty answer for the question, the call ends in
\* handle_ga5_questions at the latest, before any registered handler runs,
\* and what handle_ga5_questions returns is the first non-empty answer of the
\* Apache-log, embedding and sales matchers, in that order.
C30_LateMatchersNeverAnswer ==
    LET q == hq_question
        late == <<handle_apache_log_analysis(q), handle_embedding_similarity(q),
                  handle_sales_analytics(q)>>
        hits == {k \in 1..3 : Truthy(late[k])}
        ga5 == {k \in 1..Len(hq_trace) : hq_trace[k].matcher = "ga5"}
    IN  /\ (hq_pc = "done" /\ hq_result.handled) =>
              hq_trace[Len(hq_trace)].matcher \notin {"embedding", "sales", "apache"}
        /\ hits # {} =>
              /\ hq_pc \notin {"h1", "h2", "h3", "h4", "embedding", "sales", "apache", "end"}
              /\ \A k \in 1..Len(hq_trace) :
                    hq_trace[k].matcher \notin {"h1", "h2", "h3", "h4", "embedding", "sales", "apache"}
              /\ ga5 # {} =>
                    /\ hq_pc = "done"
                    /\ hq_result = [handled |-> TRUE, answer |-> late[SetMin(hits)]]

\* the sales question and the embedding question together: answered in
\* handle_ga5_questions, by the embedding matcher
C30_Witness ==
    /\ hq_pc = "done"
    /\ Truthy(handle_sales_analytics(hq_question))
    /\ Truthy(handle_embedding_similarity(hq_question))
    /\ hq_trace[Len(hq_trace)].matcher = "ga5"
    /\ hq_result = [handled |-> TRUE, answer |-> handle_embedding_similarity(hq_question)]

\* C30 as stated: whenever one of the three matchers gives a non-empty answer
\* for the question, the finished call was answered by handle_ga5_questions.
C30_Ga5AlwaysAnswers ==
    LET q == hq_question
    IN  (/\ hq_pc = "done"
         /\ \/ Truthy(handle_apache_log_analysis(q))
            \/ Truthy(handle_embedding_similarity(q))
            \/ Truthy(handle_sales_analytics(q)))
        => hq_trace[Len(hq_trace)].matcher = "ga5"

(***************************************************************************)
(* CodeExecutor                                                            *)
(***************************************************************************)

SUPPORTED_LANGUAGES == {<<"p","y","t","h","o","n">> (* python *), <<"j","a","v","a","s","c","r","i","p","t">> (* javascript *)}

\* ModelManager.__init__: self.executor = CodeExecutor(timeout=10)
timeout == 10

\* ^\s*kw ... with re.MULTILINE, at the line start i, for the shapes
\*   "call"   kw\s+\w+\s*\(        "assign" kw\s+\w+\s*=      "colon" kw\s+\w+:
\*   "name"   kw\s+\w+             "from"   kw\s+\w+\s+import
\*   "bare"   kw                   "line"   kw.*from
DeclAt(s, i, kw, shape) ==
    LET ws(a) == SetMin({j \in a..(Len(s) + 1) : j = Len(s) + 1 \/ s[j] \notin Whitespace})
        word(a) == SetMin({j \in a..(Len(s) + 1) : j = Len(s) + 1 \/ s[j] \notin WordChars})
        k == ws(i)                  \* the keyword
        n == ws(k + Len(kw))        \* the name
        e == word(n)                \* the end of the name
    IN  /\ (i = 1 \/ s[i - 1] = "\n")
        /\ MatchAt(s, k, kw)
        /\ CASE shape = "bare" -> TRUE
             [] shape = "line" ->
                  \E f \in (k + Len(kw))..Len(s) :
                     MatchAt(s, f, <<"f","r","o","m">> (* from *)) /\ \A x \in (k + Len(kw))..(f - 1) : s[x] # "\n"
             [] OTHER ->
                  /\ n > k + Len(kw)
                  /\ e > n
                  /\ CASE shape = "name" -> TRUE
                       [] shape = "call" -> MatchAt(s, ws(e), <<"(">> (* ( *))
                       [] shape = "assign" -> MatchAt(s, ws(e), <<"=">> (* = *))
                       [] shape = "colon" -> MatchAt(s, e, <<":">> (* : *))
                       [] shape = "from" -> ws(e) > e /\ MatchAt(s, ws(e), <<"i","m","p","o","r","t">> (* import *))

\* the javascript patterns tested before the python ones
detect_javascript_first(code) ==
    LET has(kw, shape) == \E i \in 1..Len(code) : DeclAt(code, i, kw, shape)
    IN  IF \/ has(<<"f","u","n","c","t","i","o","n">> (* function *), "call") \/ has(<<"c","o","n","s","t">> (* const *), "assign") \/ has(<<"l","e","t">> (* let *), "assign")
                \/ has(<<"v","a","r">> (* var *), "assign") \/ Contains(code, <<"c","o","n","s","o","l","e",".","l","o","g","(">> (* console.log( *))
                \/ has(<<"e","x","p","o","r","t">> (* export *), "bare") \/ has(<<"i","m","p","o","r","t">> (* import *), "line")
        THEN <<"j","a","v","a","s","c","r","i","p","t">> (* javascript *)
        ELSE IF \/ has(<<"d","e","f">> (* def *), "call") \/ has(<<"i","m","p","o","r","t">> (* import *), "name") \/ has(<<"f","r","o","m">> (* from *), "from")
           \/ Contains(code, <<"p","r","i","n","t","(">> (* print( *)) \/ has(<<"c","l","a","s","s">> (* class *), "colon")
        THEN <<"p","y","t","h","o","n">> (* python *)
        ELSE <<"p","y","t","h","o","n">> (* python *)

\* lines 49-78: the python patterns, then the javascript ones, then python
detect_language(code) ==
    LET has(kw, shape) == \E i \in 1..Len(code) : DeclAt(code, i, kw, shape)
    IN  IF \/ has(<<"d","e","f">> (* def *), "call") \/ has(<<"i","m","p","o","r","t">> (* import *), "name") \/ has(<<"f","r","o","m">> (* from *), "from")
           \/ Contains(code, <<"p","r","i","n","t","(">> (* print( *)) \/ has(<<"c","l","a","s","s">> (* class *), "colon")
        THEN <<"p","y","t","h","o","n">> (* python *)
        ELSE IF \/ has(<<"f","u","n","c","t","i","o","n">> (* function *), "call") \/ has(<<"c","o","n","s","t">> (* const *), "assign") \/ has(<<"l","e","t">> (* let *), "assign")
                \/ has(<<"v","a","r">> (* var *), "assign") \/ Contains(code, <<"c","o","n","s","o","l","e",".","l","o","g","(">> (* console.log( *))
                \/ has(<<"e","x","p","o","r","t">> (* export *), "bare") \/ has(<<"i","m","p","o","r","t">> (* import *), "line")
        THEN <<"j","a","v","a","s","c","r","i","p","t">> (* javascript *)
        ELSE <<"p","y","t","h","o","n">> (* python *)

\* execute_code(code, language) is entered
ExecCall(code, language) ==
    /\ ex_pc = "start"
    /\ ex_code = code
    /\ ex_language = language
    /\ ex_file = "none"
    /\ ex_events = <<>>
    /\ ex_result = [success |-> FALSE, output |-> <<>>]

\* what the interpreter started on the temporary file can do within the
\* timeout or not: its exit, what it wrote, and whether it removed its own file
ProcessRuns ==
    {[kind |-> "exit0", stdout |-> <<"5","\n">> (* 5[nl] *), stderr |-> <<>>, unlinks |-> FALSE],
     [kind |-> "exit0", stdout |-> <<>>, stderr |-> <<>>, unlinks |-> FALSE],
     [kind |-> "exit0", stdout |-> <<"5","\n">> (* 5[nl] *), stderr |-> <<"D","e","p","r","e","c","a","t","i","o","n","W","a","r","n","i","n","g",":"," ","o","l","d","\n">> (* DeprecationWarning: old[nl] *), unlinks |-> FALSE],
     [kind |-> "exit0", stdout |-> <<"5","\n">> (* 5[nl] *), stderr |-> <<>>, unlinks |-> TRUE],
     \* an error raised by the snippet and printed by the wrapper of a python script
     [kind |-> "exit0", stdout |-> <<"E","r","r","o","r",":"," ","d","i","v","i","s","i","o","n"," ","b","y"," ","z","e","r","o","\n","\n">> (* Error: division by zero[nl][nl] *), stderr |-> <<>>, unlinks |-> FALSE],
     [kind |-> "nonzero", stdout |-> <<>>, stderr |-> <<"S","y","n","t","a","x","E","r","r","o","r",":"," ","i","n","v","a","l","i","d"," ","s","y","n","t","a","x","\n">> (* SyntaxError: invalid syntax[nl] *), unlinks |-> FALSE],
     [kind |-> "timeout", stdout |-> <<>>, stderr |-> <<>>, unlinks |-> FALSE]}

\* the python script written to the file: the code, indented, inside the
\* header and footer that capture its output
PythonScript(code) ==
    LET lines == Split(code, "\n")
    IN  <<"i","m","p","o","r","t"," ","s","y","s",","," ","i","o","\n","o","r","i","g","i","n","a","l","_","s","t","d","o","u","t"," ","="," ","s","y","s",".","s","t","d","o","u","t","\n","s","y","s",".","s","t","d","o","u","t"," ","="," ","i","o",".","S","t","r","i","n","g","I","O","(",")","\n","\n","t","r","y",":","\n">> (* import sys, io[nl]original_stdout = sys.stdout[nl]sys.stdout = io.StringIO()[nl][nl]try:[nl] *)
        \o Join([k \in 1..Len(lines) |-> <<" "," "," "," ">> (*      *) \o lines[k]], <<"\n">> (* [nl] *))
        \o <<"\n","e","x","c","e","p","t"," ","E","x","c","e","p","t","i","o","n"," ","a","s"," ","e",":","\n"," "," "," "," ","p","r","i","n","t","(","f","'","E","r","r","o","r",":"," ","{","s","t","r","(","e",")","}","'",")","\n","f","i","n","a","l","l","y",":","\n"," "," "," "," ","o","u","t","p","u","t"," ","="," ","s","y","s",".","s","t","d","o","u","t",".","g","e","t","v","a","l","u","e","(",")","\n"," "," "," "," ","s","y","s",".","s","t","d","o","u","t"," ","="," ","o","r","i","g","i","n","a","l","_","s","t","d","o","u","t","\n"," "," "," "," ","p","r","i","n","t","(","o","u","t","p","u","t",")">> (* [nl]except Exception as e:[nl]    print(f'Error: {str(e)}')[nl]finally:[nl]    output = sys.stdout.getvalue()[nl]    sys.stdout = original_stdout[nl]    print(output) *)

\* a call that reports success whatever happened
ExLeaveSucceeded(success, output) ==
    /\ ex_result' = [success |-> TRUE, output |-> output]
    /\ ex_pc' = "cleanup"

\* the call leaves the try statement with a result; the finally clause follows
ExLeave(success, output) ==
    /\ ex_result' = [success |-> success, output |-> output]
    /\ ex_pc' = "cleanup"

\* lines 92-98: the language is detected if none is given; an unsupported
\* one ends the call before anything is created
ExCheckLanguage ==
    /\ ex_pc = "start"
    /\ LET language == IF ex_language = <<>> THEN detect_language(ex_code) ELSE ex_language
       IN  /\ ex_language' = language
           /\ ex_events' = IF ex_language = <<>>
                           THEN Append(ex_events, <<"detect", language>>)
                           ELSE ex_events
           /\ IF language \notin SUPPORTED_LANGUAGES
              THEN /\ ex_result' = [success |-> FALSE, output |-> <<"U","n","s","u","p","p","o","r","t","e","d"," ","l","a","n","g","u","a","g","e",":"," ">> (* Unsupported language:  *) \o language]
                   /\ ex_pc' = "returned"
              ELSE /\ ex_pc' = "create"
                   /\ UNCHANGED ex_result
    /\ UNCHANGED <<ex_code, ex_file>>

\* tempfile.NamedTemporaryFile(suffix=extension, delete=False)
ExCreateFile ==
    /\ ex_pc = "create"
    /\ \/ /\ ex_file' = "exists"
          /\ ex_events' = Append(ex_events, <<"create", <<>>>>)
          /\ ex_pc' = "write"
          /\ UNCHANGED ex_result
       \/ /\ ExLeave(FALSE, <<"S","e","t","u","p"," ","e","r","r","o","r",":"," ","[","E","r","r","n","o"," ","2","8","]"," ","N","o"," ","s","p","a","c","e"," ","l","e","f","t"," ","o","n"," ","d","e","v","i","c","e">> (* Setup error: [Errno 28] No space left on device *))
          /\ UNCHANGED <<ex_file, ex_events>>
    /\ UNCHANGED <<ex_code, ex_language>>

\* temp_file.write(...), temp_file.flush() and the close at the end of the with
ExWriteFile ==
    /\ ex_pc = "write"
    /\ \/ /\ ex_events' = Append(ex_events,
                                 <<"write", IF ex_language = <<"p","y","t","h","o","n">> (* python *) THEN PythonScript(ex_code) ELSE ex_code>>)
          /\ ex_pc' = "spawn"
          /\ UNCHANGED ex_result
       \/ /\ ExLeave(FALSE, <<"S","e","t","u","p"," ","e","r","r","o","r",":"," ","[","E","r","r","n","o"," ","2","8","]"," ","N","o"," ","s","p","a","c","e"," ","l","e","f","t"," ","o","n"," ","d","e","v","i","c","e">> (* Setup error: [Errno 28] No space left on device *))
          /\ UNCHANGED ex_events
    /\ UNCHANGED <<ex_code, ex_language, ex_file>>

\* subprocess.Popen([command, temp_path], ...)
ExSpawn ==
    /\ ex_pc = "spawn"
    /\ \/ /\ ex_events' = Append(ex_events, <<"spawn", <<>>>>)
          /\ ex_pc' = "wait"
          /\ UNCHANGED ex_result
       \/ /\ ExLeave(FALSE, <<"E","x","e","c","u","t","i","o","n"," ","e","r","r","o","r",":"," ","[","E","r","r","n","o"," ","2","]"," ","N","o"," ","s","u","c","h"," ","f","i","l","e"," ","o","r"," ","d","i","r","e","c","t","o","r","y">> (* Execution error: [Errno 2] No such file or directory *))
          /\ UNCHANGED ex_events
    /\ UNCHANGED <<ex_code, ex_language, ex_file>>

\* a wait that, on TimeoutExpired, returns and leaves the process running
ExWaitNoKill ==
    /\ ex_pc = "wait"
    /\ ex_events' = Append(ex_events, <<"TimeoutExpired", <<>>>>)
    /\ ExLeave(FALSE, <<"E","x","e","c","u","t","i","o","n"," ","t","i","m","e","d"," ","o","u","t"," ","a","f","t","e","r"," ">> (* Execution timed out after  *) \o IntToStr(timeout) \o <<" ","s","e","c","o","n","d","s">> (*  seconds *))
    /\ UNCHANGED <<ex_code, ex_language, ex_file>>

\* process.communicate(timeout=self.timeout) and what follows it; the events
\* record what communicate gave: the return code with the two captured
\* streams, or TimeoutExpired
ExWait ==
    /\ ex_pc = "wait"
    /\ \E run \in ProcessRuns :
          /\ ex_file' = IF run.unlinks THEN "gone" ELSE ex_file
          /\ CASE run.kind = "timeout" ->
                    /\ ex_events' = ex_events \o << <<"TimeoutExpired", <<>>>>, <<"kill", <<>>>> >>
                    /\ ExLeave(FALSE, <<"E","x","e","c","u","t","i","o","n"," ","t","i","m","e","d"," ","o","u","t"," ","a","f","t","e","r"," ">> (* Execution timed out after  *) \o IntToStr(timeout) \o <<" ","s","e","c","o","n","d","s">> (*  seconds *))
               [] run.kind = "nonzero" ->
                    /\ ExLeave(FALSE, <<"E","x","e","c","u","t","i","o","n"," ","f","a","i","l","e","d",":"," ">> (* Execution failed:  *) \o run.stderr)
                    /\ ex_events' = ex_events \o << <<"returncode", <<"1">>>>,
                                                    <<"stdout", run.stdout>>, <<"stderr", run.stderr>> >>
               [] run.kind = "exit0" ->
                    /\ ExLeave(TRUE, Strip(run.stdout \o (IF run.stderr = <<>> THEN <<>>
                                                          ELSE <<"\n","S","t","d","e","r","r",":"," ">> (* [nl]Stderr:  *) \o run.stderr)))
                    /\ ex_events' = ex_events \o << <<"returncode", <<"0">>>>,
                                                    <<"stdout", run.stdout>>, <<"stderr", run.stderr>> >>
    /\ UNCHANGED <<ex_code, ex_language>>

\* a finally clause that leaves the file where it is
ExNoCleanup ==
    /\ ex_pc = "cleanup"
    /\ ex_pc' = "returned"
    /\ UNCHANGED <<ex_code, ex_language, ex_file, ex_events, ex_result>>

\* finally: the file, if it was created and is still there, is removed; when
\* os.unlink raises, a warning is logged and the file stays
ExCleanup ==
    /\ ex_pc = "cleanup"
    /\ \/ /\ ex_file = "exists"
          /\ ex_file' = "gone"
          /\ ex_events' = Append(ex_events, <<"unlink", <<>>>>)
       \/ /\ ex_file = "exists"
          /\ ex_events' = Append(ex_events, <<"warning", <<"E","r","r","o","r"," ","c","l","e","a","n","i","n","g"," ","u","p"," ","t","e","m","p","o","r","a","r","y"," ","f","i","l","e",":"," ","[","E","r","r","n","o"," ","1","3","]"," ","P","e","r","m","i","s","s","i","o","n"," ","d","e","n","i","e","d">> (* Error cleaning up temporary file: [Errno 13] Permission denied *)>>)
          /\ UNCHANGED ex_file
       \/ /\ ex_file # "exists"
          /\ UNCHANGED <<ex_file, ex_events>>
    /\ ex_pc' = "returned"
    /\ UNCHANGED <<ex_code, ex_language, ex_result>>

\* the calls of execute_code
ExecInit ==
    /\ Idle({"clean", "bank", "gen"})
    /\ \E code \in {<<"i","m","p","o","r","t"," ","a"," ","f","r","o","m"," ","'","b","'","\n","c","o","n","s","o","l","e",".","l","o","g","(","a",")">> (* import a from 'b'[nl]console.log(a) *), <<"p","r","i","n","t","(","5",")">> (* print(5) *), <<"c","o","n","s","o","l","e",".","l","o","g","(","5",")">> (* console.log(5) *), <<"x"," ","="," ","1","\n","w","h","i","l","e"," ","T","r","u","e",":","\n"," "," "," "," ","x"," ","+","="," ","1">> (* x = 1[nl]while True:[nl]    x += 1 *)},
          language \in {<<>>, <<"p","y","t","h","o","n">> (* python *), <<"j","a","v","a","s","c","r","i","p","t">> (* javascript *), <<"r","u","b","y">> (* ruby *)} :
          ExecCall(code, language)

ExecNext ==
    /\ ExCheckLanguage \/ ExCreateFile \/ ExWriteFile \/ ExSpawn \/ ExWait \/ ExCleanup
    /\ UNCHANGED <<clean_vars, bank_vars, gen_vars>>

ExecSpec == ExecInit /\ [][ExecNext]_vars

RECURSIVE FencedBlocks(_, _)
FencedBlocks(text, from) ==
    LET opens == {i \in from..Len(text) :
                    /\ MatchAt(text, i, <<Backtick,Backtick,Backtick>> (* [bq][bq][bq] *))
                    /\ \E c \in (i + 3)..Len(text) : MatchAt(text, c, <<Backtick,Backtick,Backtick>> (* [bq][bq][bq] *))}
    IN  IF opens = {} THEN <<>>
        ELSE LET i == SetMin(opens)
                 c == SetMin({c \in (i + 3)..Len(text) : MatchAt(text, c, <<Backtick,Backtick,Backtick>> (* [bq][bq][bq] *))})
                 w == SetMin({j \in (i + 3)..c : text[j] \notin WordChars})
                 language == IF w = i + 3 THEN <<"p","y","t","h","o","n">> (* python *) ELSE Lower(SubSeq(text, i + 3, w - 1))
             IN  <<<<language, Strip(SubSeq(text, w, c - 1))>>>> \o FencedBlocks(text, c + 3)

\* the runs of lines indented by four blanks or a tab, from line k on;
\* current holds the lines of the run being read, their indent removed
RECURSIVE IndentedBlocks(_, _, _)
IndentedBlocks(lines, k, current) ==
    LET block == IF current = <<>> THEN <<>>
                 ELSE <<<<detect_language(Join(current, <<"\n">> (* [nl] *))), Join(current, <<"\n">> (* [nl] *))>>>>
    IN  IF k > Len(lines) THEN block
        ELSE IF StartsWith(lines[k], <<" "," "," "," ">> (*      *))
        THEN IndentedBlocks(lines, k + 1, Append(current, SubSeq(lines[k], 5, Len(lines[k]))))
        ELSE IF StartsWith(lines[k], <<"\t">> (* [tab] *))
        THEN IndentedBlocks(lines, k + 1, Append(current, Tail(lines[k])))
        ELSE block \o IndentedBlocks(lines, k + 1, <<>>)

\* the indented runs added to the fenced regions in every case
extract_all_blocks(text) ==
    FencedBlocks(text, 1) \o IndentedBlocks(Split(text, "\n"), 1, <<>>)

\* lines 200-241: the fenced regions, or else the indented runs
extract_code_blocks(text) ==
    IF FencedBlocks(text, 1) # <<>> THEN FencedBlocks(text, 1)
    ELSE IndentedBlocks(Split(text, "\n"), 1, <<>>)

\* C16: when communicate raises TimeoutExpired (the interpreter has not exited
\* within the configured timeout of 10 seconds), the next thing execute_code
\* does is kill the process; it never waits for it again, and the call returns
\* (False, "Execution timed out after 10 seconds").
C16_TimeoutKills ==
    \A k \in 1..Len(ex_events) :
       ex_events[k][1] = "TimeoutExpired" =>
          /\ Len(ex_events) > k
          /\ ex_events[k + 1][1] = "kill"
          /\ \A j \in (k + 1)..Len(ex_events) :
                ex_events[j][1] \notin {"spawn", "returncode", "TimeoutExpired"}
          /\ ex_pc \in {"cleanup", "returned"}
          /\ ex_result = [success |-> FALSE,
                          output |-> <<"E","x","e","c","u","t","i","o","n"," ","t","i","m","e","d"," ","o","u","t"," ","a","f","t","e","r"," ","1","0"," ","s","e","c","o","n","d","s">> (* Execution timed out after 10 seconds *)]

\* a call on the endless loop has timed out and returned
C16_Witness ==
    /\ ex_pc = "returned"
    /\ ex_code = <<"x"," ","="," ","1","\n","w","h","i","l","e"," ","T","r","u","e",":","\n"," "," "," "," ","x"," ","+","="," ","1">> (* x = 1[nl]while True:[nl]    x += 1 *)
    /\ \E k \in 1..Len(ex_events) : ex_events[k] = <<"TimeoutExpired", <<>>>>
    /\ ex_result.output = <<"E","x","e","c","u","t","i","o","n"," ","t","i","m","e","d"," ","o","u","t"," ","a","f","t","e","r"," ","1","0"," ","s","e","c","o","n","d","s">> (* Execution timed out after 10 seconds *)

\* C17 as stated: success is True exactly when the interpreter exited with
\* code 0 within the timeout; a non-zero exit returns "Execution failed: "
\* with stderr; on success the output is stdout, followed by "\nStderr: " and
\* stderr only when stderr is not empty; every other way out of the call
\* returns success = False.
C17_OutputIsStdout ==
    ex_pc \in {"cleanup", "returned"} =>
       LET exits == {k \in 1..Len(ex_events) : ex_events[k][1] = "returncode"}
       IN  /\ ex_result.success <=> (\E k \in exits : ex_events[k][2] = <<"0">>)
           /\ \A k \in exits :
                 LET stdout == ex_events[k + 1][2]
                     stderr == ex_events[k + 2][2]
                 IN  ex_result.output =
                        IF ex_events[k][2] = <<"0">>
                        THEN stdout \o (IF stderr = <<>> THEN <<>> ELSE <<"\n","S","t","d","e","r","r",":"," ">> (* [nl]Stderr:  *) \o stderr)
                        ELSE <<"E","x","e","c","u","t","i","o","n"," ","f","a","i","l","e","d",":"," ">> (* Execution failed:  *) \o stderr

\* C17, with the output the code returns on success: stdout and the labelled
\* stderr suffix, with the white space around the whole removed
\* (output.strip()).
C17_OutputIsStrippedStdout ==
    ex_pc \in {"cleanup", "returned"} =>
       LET exits == {k \in 1..Len(ex_events) : ex_events[k][1] = "returncode"}
       IN  /\ ex_result.success <=> (\E k \in exits : ex_events[k][2] = <<"0">>)
           /\ \A k \in exits :
                 LET stdout == ex_events[k + 1][2]
                     stderr == ex_events[k + 2][2]
                 IN  ex_result.output =
                        IF ex_events[k][2] = <<"0">>
                        THEN Strip(stdout \o (IF stderr = <<>> THEN <<>> ELSE <<"\n","S","t","d","e","r","r",":"," ">> (* [nl]Stderr:  *) \o stderr))
                        ELSE <<"E","x","e","c","u","t","i","o","n"," ","f","a","i","l","e","d",":"," ">> (* Execution failed:  *) \o stderr

\* an interpreter that printed 5 and a warning, and exited with code 0
C17_Witness ==
    /\ ex_pc = "returned"
    /\ \E k \in 1..Len(ex_events) :
          /\ ex_events[k] = <<"returncode", <<"0">>>>
          /\ ex_events[k + 2] = <<"stderr", <<"D","e","p","r","e","c","a","t","i","o","n","W","a","r","n","i","n","g",":"," ","o","l","d","\n">> (* DeprecationWarning: old[nl] *)>>
    /\ ex_result = [success |-> TRUE, output |-> <<"5","\n","\n","S","t","d","e","r","r",":"," ","D","e","p","r","e","c","a","t","i","o","n","W","a","r","n","i","n","g",":"," ","o","l","d">> (* 5[nl][nl]Stderr: DeprecationWarning: old *)]

\* C27: for a python snippet, whenever running the snippet raised an error
\* (the script printed an "Error: " line, or the interpreter reported an
\* error on stderr), execute_code returns success = True with an output that
\* contains the printed error line; it never returns the failure of a
\* non-zero exit.
C27_PythonErrorPrinted ==
    LET raised == \E k \in 1..Len(ex_events) :
                     \/ ex_events[k][1] = "stdout" /\ Contains(ex_events[k][2], <<"E","r","r","o","r",":"," ">> (* Error:  *))
                     \/ ex_events[k][1] = "stderr" /\ Contains(ex_events[k][2], <<"E","r","r","o","r">> (* Error *))
    IN  (ex_language = <<"p","y","t","h","o","n">> (* python *) /\ ex_pc \in {"cleanup", "returned"} /\ raised) =>
           /\ ex_result.success
           /\ Contains(ex_result.output, <<"E","r","r","o","r",":"," ">> (* Error:  *))

select_gemini(question) == "gemini"

\* the name of the backend to use, "None" for None
select_model_for_question(question) ==
    LET question_lower == Lower(question)
        coding_indicators ==
            <<<<"c","o","d","e">> (* code *), <<"f","u","n","c","t","i","o","n">> (* function *), <<"a","l","g","o","r","i","t","h","m">> (* algorithm *), <<"p","r","o","g","r","a","m","m","i","n","g">> (* programming *), <<"p","y","t","h","o","n">> (* python *), <<"j","a","v","a","s","c","r","i","p","t">> (* javascript *),
              <<"c","o","m","p","u","t","e">> (* compute *), <<"c","a","l","c","u","l","a","t","e">> (* calculate *), <<"i","m","p","l","e","m","e","n","t">> (* implement *), <<"s","c","r","i","p","t">> (* script *), <<"f","u","n","c","t","i","o","n">> (* function *), <<"c","l","a","s","s">> (* class *),
              <<"m","e","t","h","o","d">> (* method *), <<"s","y","n","t","a","x">> (* syntax *), <<"c","o","m","p","i","l","e","r">> (* compiler *), <<"i","n","t","e","r","p","r","e","t","e","r">> (* interpreter *), <<"r","u","n","t","i","m","e">> (* runtime *)>>
        data_indicators ==
            <<<<"d","a","t","a"," ","f","r","a","m","e">> (* data frame *), <<"p","a","n","d","a","s">> (* pandas *), <<"c","s","v">> (* csv *), <<"d","a","t","a","s","e","t">> (* dataset *), <<"d","a","t","a"," ","s","e","t">> (* data set *), <<"v","i","s","u","a","l","i","z","a","t","i","o","n">> (* visualization *),
              <<"p","l","o","t">> (* plot *), <<"g","r","a","p","h">> (* graph *), <<"c","h","a","r","t">> (* chart *), <<"a","n","a","l","y","s","i","s">> (* analysis *), <<"s","t","a","t","i","s","t","i","c","s">> (* statistics *), <<"r","e","g","r","e","s","s","i","o","n">> (* regression *),
              <<"p","r","e","d","i","c","t","i","o","n">> (* prediction *), <<"m","a","c","h","i","n","e"," ","l","e","a","r","n","i","n","g">> (* machine learning *)>>
        score(indicators) ==
            Cardinality({k \in 1..Len(indicators) : Contains(question_lower, indicators[k])})
        has(m) == \E k \in 1..Len(available_models) : available_models[k] = m
    IN  IF available_models = <<>> THEN "None"
        ELSE IF score(coding_indicators) > score(data_indicators) /\ has("openai") THEN "openai"
        ELSE IF has("gemini") THEN "gemini"
        ELSE available_models[1]

is_coding(question) ==
    \E term \in {<<"c","o","d","e">> (* code *), <<"f","u","n","c","t","i","o","n">> (* function *), <<"a","l","g","o","r","i","t","h","m">> (* algorithm *), <<"p","r","o","g","r","a","m","m","i","n","g">> (* programming *), <<"p","y","t","h","o","n">> (* python *),
                 <<"j","a","v","a","s","c","r","i","p","t">> (* javascript *), <<"o","u","t","p","u","t">> (* output *), <<"c","o","m","p","u","t","e">> (* compute *), <<"c","a","l","c","u","l","a","t","e">> (* calculate *)} :
        Contains(Lower(question), term)

is_code_execution_needed(question, response) ==
    /\ Contains(response, <<Backtick,Backtick,Backtick>> (* [bq][bq][bq] *))
    /\ \E indicator \in {<<"w","h","a","t"," ","i","s"," ","t","h","e"," ","o","u","t","p","u","t"," ","o","f">> (* what is the output of *), <<"r","u","n"," ","t","h","i","s"," ","c","o","d","e">> (* run this code *), <<"e","x","e","c","u","t","e"," ","t","h","i","s"," ","c","o","d","e">> (* execute this code *),
                         <<"w","h","a","t"," ","w","i","l","l"," ","b","e"," ","t","h","e"," ","r","e","s","u","l","t">> (* what will be the result *), <<"w","h","a","t"," ","d","o","e","s"," ","t","h","i","s"," ","c","o","d","e"," ","p","r","i","n","t">> (* what does this code print *),
                         <<"c","o","m","p","u","t","e"," ","t","h","e"," ","r","e","s","u","l","t">> (* compute the result *), <<"c","a","l","c","u","l","a","t","e">> (* calculate *), <<"t","h","e"," ","o","u","t","p","u","t"," ","i","s">> (* the output is *),
                         <<"r","u","n"," ","t","h","e"," ","f","o","l","l","o","w","i","n","g">> (* run the following *), <<"e","x","e","c","u","t","e"," ","t","h","e"," ","f","o","l","l","o","w","i","n","g">> (* execute the following *)} :
          Contains(Lower(question), indicator)

\* what a backend call can come to: the text of the reply, or the text of
\* the exception raised inside get_response_from_gemini / _openai
BackendReplies ==
    {[ok |-> TRUE, text |-> <<"4","2">> (* 42 *)],
     [ok |-> TRUE, text |-> <<>>],
     [ok |-> TRUE, text |-> <<" ","\n">> (*  [nl] *)],
     [ok |-> TRUE, text |-> <<"T","h","e"," ","a","n","s","w","e","r"," ","i","s",":","\n","4","2">> (* The answer is:[nl]42 *)],
     [ok |-> TRUE, text |-> <<Backtick,Backtick,Backtick,"p","y","t","h","o","n","\n","p","r","i","n","t","(","5",")","\n",Backtick,Backtick,Backtick>> (* [bq][bq][bq]python[nl]print(5)[nl][bq][bq][bq] *)],
     [ok |-> TRUE, text |-> <<Backtick,Backtick,Backtick,"r","u","b","y","\n","p","u","t","s"," ","5","\n",Backtick,Backtick,Backtick,"\n",Backtick,Backtick,Backtick,"\n","p","r","i","n","t","(","5",")","\n",Backtick,Backtick,Backtick>> (* [bq][bq][bq]ruby[nl]puts 5[nl][bq][bq][bq][nl][bq][bq][bq][nl]print(5)[nl][bq][bq][bq] *)],
     [ok |-> TRUE, text |-> <<"R","u","n",":","\n"," "," "," "," ","c","o","n","s","o","l","e",".","l","o","g","(","5",")","\n",Backtick,Backtick,Backtick>> (* Run:[nl]    console.log(5)[nl][bq][bq][bq] *)],
     \* a fenced block followed by an indented line
     [ok |-> TRUE, text |-> <<Backtick,Backtick,Backtick,"p","y","t","h","o","n","\n","p","r","i","n","t","(","5",")","\n",Backtick,Backtick,Backtick,"\n"," "," "," "," ","c","o","n","s","o","l","e",".","l","o","g","(","5",")">> (* [bq][bq][bq]python[nl]print(5)[nl][bq][bq][bq][nl]    console.log(5) *)],
     \* a single fence and no indented line: no block at all
     [ok |-> TRUE, text |-> <<"S","e","e"," ",Backtick,Backtick,Backtick," ","a","b","o","v","e">> (* See [bq][bq][bq] above *)],
     [ok |-> FALSE, text |-> <<"q","u","o","t","a"," ","e","x","c","e","e","d","e","d">> (* quota exceeded *)],
     [ok |-> FALSE, text |-> <<"4","2","9"," ","q","u","o","t","a"," ","e","x","c","e","e","d","e","d","\n","r","e","t","r","y"," ","l","a","t","e","r">> (* 429 quota exceeded[nl]retry later *)],
     [ok |-> FALSE, text |-> <<>>]}

\* line 345: handled and special_result
BankAnswered == hq_pc = "done" /\ hq_result.handled /\ Truthy(hq_result.answer)

\* lines 344-347 with the bank ignored: the request always goes on
GaIgnoreBank ==
    /\ ga_pc = "bank"
    /\ hq_pc \in {"done", "raised"}
    /\ ga_pc' = "select"
    /\ UNCHANGED <<available_models, ga_response, ga_events, ga_answer, sb_blocks, sb_results>>
    /\ UNCHANGED <<clean_vars, bank_vars, exec_vars>>

\* lines 344-347: handle_question has returned (or raised)
\*   if handled and special_result: return special_result
GaAfterBank ==
    /\ ga_pc = "bank"
    /\ hq_pc \in {"done", "raised"}
    /\ IF hq_pc = "raised"
       THEN ga_pc' = "raised" /\ ga_answer' = hq_result.answer
       ELSE IF BankAnswered
       THEN ga_pc' = "returned" /\ ga_answer' = hq_result.answer
       ELSE ga_pc' = "select" /\ UNCHANGED ga_answer
    /\ UNCHANGED <<available_models, ga_response, ga_events, sb_blocks, sb_results>>
    /\ UNCHANGED <<clean_vars, bank_vars, exec_vars>>

\* lines 364-370 and the else of line 379: the backend is selected and, if
\* there is one, the system prompt is chosen
GaSelect ==
    /\ ga_pc = "select"
    /\ LET model_name == select_model_for_question(hq_question)
           selected == [ev |-> "select", backend |-> model_name, text |-> <<>>]
           \* line 370: get_system_prompt(is_coding=is_coding)
           prompt == [ev |-> "prompt", backend |-> "None",
                      text |-> IF is_coding(hq_question) THEN <<"c","o","d","i","n","g">> (* coding *) ELSE <<"g","e","n","e","r","a","l">> (* general *)]
       IN  /\ ga_events' = IF model_name \in {"gemini", "openai"}
                           THEN ga_events \o <<selected, prompt>>
                           ELSE Append(ga_events, selected)
           /\ IF model_name = "None"
              THEN ga_pc' = "returned" /\ ga_answer' = PyStr(<<"E","r","r","o","r",":"," ","N","o"," ","A","I"," ","m","o","d","e","l","s"," ","a","r","e"," ","a","v","a","i","l","a","b","l","e">> (* Error: No AI models are available *))
              ELSE IF model_name \notin {"gemini", "openai"}
              THEN ga_pc' = "returned" /\ ga_answer' = PyStr(<<"E","r","r","o","r",":"," ","I","n","v","a","l","i","d"," ","m","o","d","e","l"," ","s","e","l","e","c","t","i","o","n">> (* Error: Invalid model selection *))
              ELSE ga_pc' = "call" /\ UNCHANGED ga_answer
    /\ UNCHANGED <<available_models, ga_response, sb_blocks, sb_results>>
    /\ UNCHANGED <<clean_vars, bank_vars, exec_vars>>

\* lines 373-378 with get_response_from_gemini / get_response_from_openai:
\* the reply stripped, or "Error: " and the text of the exception; then the
\* test of line 383
GaCall ==
    /\ ga_pc = "call"
    /\ \E reply \in BackendReplies :
          LET response == IF reply.ok THEN Strip(reply.text) ELSE <<"E","r","r","o","r",":"," ">> (* Error:  *) \o reply.text
          IN  /\ ga_events' = Append(ga_events,
                      [ev |-> IF reply.ok THEN "call" ELSE "fail",
                       backend |-> select_model_for_question(hq_question),
                       text |-> reply.text])
              /\ ga_response' = response
              /\ ga_pc' = IF is_coding(hq_question)
                             /\ is_code_execution_needed(hq_question, response)
                          THEN "sandbox" ELSE "clean"
    /\ UNCHANGED <<available_models, ga_answer, sb_blocks, sb_results>>
    /\ UNCHANGED <<clean_vars, bank_vars, exec_vars>>

\* lines 387-390: the result of execute_and_get_result replaces the response
\* unless it is empty or says that no code blocks were found
UseExecutionResult(execution_result) ==
    /\ ga_response' = IF execution_result # <<>>
                         /\ ~Contains(execution_result, <<"N","o"," ","c","o","d","e"," ","b","l","o","c","k","s"," ","f","o","u","n","d">> (* No code blocks found *))
                      THEN execution_result ELSE ga_response
    /\ ga_pc' = "clean"

\* execute_and_get_result, lines 253-258
SandboxStart ==
    /\ ga_pc = "sandbox"
    /\ LET code_blocks == extract_code_blocks(ga_response)
           called == [ev |-> "sandbox", backend |-> "None", text |-> <<>>]
           sentinel == <<"N","o"," ","c","o","d","e"," ","b","l","o","c","k","s"," ","f","o","u","n","d"," ","t","o"," ","e","x","e","c","u","t","e">> (* No code blocks found to execute *)
       IN  IF code_blocks = <<>>
           THEN /\ UseExecutionResult(sentinel)
                /\ ga_events' = ga_events \o <<called, [ev |-> "result", backend |-> "None", text |-> sentinel]>>
                /\ UNCHANGED <<sb_blocks, sb_results>>
           ELSE /\ sb_blocks' = code_blocks
                /\ sb_results' = <<>>
                /\ ga_pc' = "blocks"
                /\ ga_events' = Append(ga_events, called)
                /\ UNCHANGED ga_response
    /\ UNCHANGED <<available_models, ga_answer>>
    /\ UNCHANGED <<clean_vars, bank_vars, exec_vars>>

\* execute_and_get_result, lines 260-272: the next block is run if its
\* language is supported and skipped if not
SandboxBlock ==
    /\ ga_pc = "blocks"
    /\ sb_blocks # <<>>
    /\ LET language == sb_blocks[1][1]
           code == sb_blocks[1][2]
       IN  IF language \in SUPPORTED_LANGUAGES
           THEN /\ ex_pc' = "start"        \* self.execute_code(code, language)
                /\ ex_code' = code
                /\ ex_language' = language
                /\ ex_file' = "none"
                /\ ex_events' = <<>>
                /\ ex_result' = [success |-> FALSE, output |-> <<>>]
                /\ ga_pc' = "running"
                /\ ga_events' = Append(ga_events, [ev |-> "execute", backend |-> "None", text |-> language])
                /\ UNCHANGED <<sb_blocks, sb_results>>
           ELSE /\ sb_results' = Append(sb_results,
                        <<"S","k","i","p","p","e","d"," ","e","x","e","c","u","t","i","o","n",":"," ","U","n","s","u","p","p","o","r","t","e","d"," ","l","a","n","g","u","a","g","e"," ","'">> (* Skipped execution: Unsupported language ' *) \o language \o <<"'">> (* ' *))
                /\ sb_blocks' = Tail(sb_blocks)
                /\ UNCHANGED <<exec_vars, ga_pc, ga_events>>
    /\ UNCHANGED <<available_models, ga_response, ga_answer>>
    /\ UNCHANGED <<clean_vars, bank_vars>>

\* execute_and_get_result, lines 265-270: execute_code has returned
SandboxCollect ==
    /\ ga_pc = "running"
    /\ ex_pc = "returned"
    /\ sb_results' = Append(sb_results,
          IF ex_result.success
          THEN <<"R","e","s","u","l","t"," ","o","f"," ">> (* Result of  *) \o ex_language \o <<" ","c","o","d","e"," ","e","x","e","c","u","t","i","o","n",":","\n">> (*  code execution:[nl] *) \o ex_result.output
          ELSE <<"E","r","r","o","r"," ","e","x","e","c","u","t","i","n","g"," ">> (* Error executing  *) \o ex_language \o <<" ","c","o","d","e",":"," ">> (*  code:  *) \o ex_result.output)
    /\ sb_blocks' = Tail(sb_blocks)
    /\ ga_pc' = "blocks"
    /\ UNCHANGED <<available_models, ga_response, ga_events, ga_answer>>
    /\ UNCHANGED <<clean_vars, bank_vars, exec_vars>>

\* the results joined by single newlines
SandboxFinishNoBlankLine ==
    /\ ga_pc = "blocks"
    /\ sb_blocks = <<>>
    /\ UseExecutionResult(Join(sb_results, <<"\n">>))
    /\ ga_events' = Append(ga_events, [ev |-> "result", backend |-> "None",
                                       text |-> Join(sb_results, <<"\n">>)])
    /\ UNCHANGED <<available_models, ga_answer, sb_blocks, sb_results>>
    /\ UNCHANGED <<clean_vars, bank_vars, exec_vars>>

\* execute_and_get_result, line 274, and lines 387-390
SandboxFinish ==
    /\ ga_pc = "blocks"
    /\ sb_blocks = <<>>
    /\ UseExecutionResult(Join(sb_results, <<"\n","\n">> (* [nl][nl] *)))
    /\ ga_events' = Append(ga_events, [ev |-> "result", backend |-> "None",
                                       text |-> Join(sb_results, <<"\n","\n">> (* [nl][nl] *))])
    /\ UNCHANGED <<available_models, ga_answer, sb_blocks, sb_results>>
    /\ UNCHANGED <<clean_vars, bank_vars, exec_vars>>

\* lines 393-394: return self.clean_response(response, question)
GaClean ==
    /\ ga_pc = "clean"
    /\ ga_events' = Append(ga_events, [ev |-> "clean", backend |-> "None", text |-> <<>>])
    /\ LET cleaned_response == clean_response(ga_response, hq_question)
       IN  /\ ga_answer' = cleaned_response
           /\ ga_pc' = IF IsRaise(cleaned_response) THEN "raised" ELSE "returned"
    /\ UNCHANGED <<available_models, ga_response, sb_blocks, sb_results>>
    /\ UNCHANGED <<clean_vars, bank_vars, exec_vars>>

\* ---- the requests generate_answer is called with, and the backends configured

\* the largest n of the factorial questions asked
MaxFactorial == 10

GenQuestions ==
    {<<"G","o","o","d"," ","m","o","r","n","i","n","g">> (* Good morning *),
     <<"W","h","a","t"," ","i","s"," ","t","h","e"," ","f","a","c","t","o","r","i","a","l"," ","o","f"," ","5","?">> (* What is the factorial of 5? *),
     <<"W","h","a","t"," ","i","s"," ","t","h","e"," ","o","u","t","p","u","t"," ","o","f"," ","t","h","i","s"," ","c","o","d","e","?">> (* What is the output of this code? *),
     <<"P","l","o","t"," ","a"," ","c","h","a","r","t"," ","o","f"," ","t","h","e"," ","d","a","t","a","s","e","t"," ","w","i","t","h"," ","p","y","t","h","o","n">> (* Plot a chart of the dataset with python *),
     <<"W","h","a","t"," ","i","s"," ","t","h","e"," ","o","u","t","p","u","t"," ","o","f"," ","t","h","e"," ","f","o","l","l","o","w","i","n","g"," ","p","y","t","h","o","n"," ","c","o","d","e","\n",Backtick,Backtick,Backtick,"\n","p","r","i","n","t","(","5",")","\n",Backtick,Backtick,Backtick>> (* What is the output of the following python code[nl][bq][bq][bq][nl]print(5)[nl][bq][bq][bq] *)}
       \cup {<<"W","h","a","t"," ","i","s"," ","t","h","e"," ","f","a","c","t","o","r","i","a","l"," ","o","f"," ">> (* What is the factorial of  *) \o IntToStr(n) \o <<"?">> (* ? *) : n \in 0..MaxFactorial}
       \* a fenced Python block computing the even numbers below 20
       \cup {<<"W","h","a","t"," ","i","s"," ","t","h","e"," ","o","u","t","p","u","t"," ","o","f"," ","t","h","i","s"," ","c","o","d","e","?","\n",Backtick,Backtick,Backtick,"p","y","t","h","o","n","\n","p","r","i","n","t","(","l","i","s","t","(","f","i","l","t","e","r","(","l","a","m","b","d","a"," ","x",":"," ","x"," ","%"," ","2"," ","=","="," ","0",","," ","r","a","n","g","e","(","2","0",")",")",")",")","\n",Backtick,Backtick,Backtick>> (* What is the output of this code?[nl][bq][bq][bq]python[nl]print(list(filter(lambda x: x % 2 == 0, range(20))))[nl][bq][bq][bq] *)}

Init ==
    /\ Idle({"clean", "exec"})
    /\ \E q \in GenQuestions : BankCall(q)
    /\ available_models \in {<<>>, <<"gemini">>, <<"openai">>, <<"gemini", "openai">>}
    /\ ga_pc = "bank"
    /\ ga_response = <<>>
    /\ ga_events = <<>>
    /\ ga_answer = PyNone
    /\ sb_blocks = <<>>
    /\ sb_results = <<>>

Next ==
    \/ BankNext
    \/ GaAfterBank \/ GaSelect \/ GaCall
    \/ SandboxStart \/ SandboxBlock \/ ExecNext \/ SandboxCollect \/ SandboxFinish
    \/ GaClean

Spec == Init /\ [][Next]_vars

\* C6: whenever handle_question reports a non-empty answer, generate_answer
\* returns that answer unchanged, and in that request no backend is selected
\* or called, the sandbox is not run and the cleaner is not applied, whatever
\* backends are configured: the request is either about to return or has
\* returned the answer of the bank, and nothing else has happened in it.
C6_BankAnswerReturned ==
    BankAnswered =>
       /\ ga_pc \in {"bank", "returned"}
       /\ ga_pc = "returned" => ga_answer = hq_result.answer
       /\ ga_events = <<>>
       /\ ex_pc = "idle"
       /\ ga_response = <<>>

\* the bank answers "120" with no backend configured, and that is returned
C6_Witness ==
    /\ BankAnswered
    /\ available_models = <<>>
    /\ ga_pc = "returned"
    /\ ga_answer = PyStr(<<"1","2","0">> (* 120 *))
    /\ hq_question = <<"W","h","a","t"," ","i","s"," ","t","h","e"," ","f","a","c","t","o","r","i","a","l"," ","o","f"," ","5","?">> (* What is the factorial of 5? *)

\* C7: generate_answer returns a string and never raises, for every question,
\* every set of configured backends and every outcome of the backend (a
\* failure, a multi-line reply, a single-line reply, an empty or
\* whitespace-only reply).
C7_NeverRaises ==
    /\ ga_pc # "raised"
    /\ ga_pc = "returned" => ga_answer.kind = "str"

\* C8: when the backend call fails, the answer returned begins with "Error: "
\* and carries the text of the error, and the failure is surfaced once: the
\* request has called a backend once, and no other backend after the failure.
C8_FailureSurfaced ==
    \A k \in 1..Len(ga_events) :
        ga_events[k].ev = "fail" =>
           /\ Cardinality({j \in 1..Len(ga_events) : ga_events[j].ev \in {"call", "fail"}}) = 1
           /\ ga_pc # "raised"
           /\ ga_pc = "returned" =>
                 /\ ga_answer.kind = "str"
                 /\ StartsWith(ga_answer.val, <<"E","r","r","o","r",":"," ">> (* Error:  *))
                 /\ Contains(ga_answer.val, ga_events[k].text)

\* C9: when no backend is configured and the bank does not handle the
\* question, generate_answer returns "Error: No AI models are available"
\* without calling a backend, running the sandbox or raising: after the bank
\* the request only selects (finding nothing) and returns that string.
C9_NoModels ==
    (available_models = <<>> /\ hq_pc = "done" /\ ~BankAnswered) =>
       /\ ga_pc \in {"bank", "select", "returned"}
       /\ ga_pc = "returned" =>
             /\ ga_answer = PyStr(<<"E","r","r","o","r",":"," ","N","o"," ","A","I"," ","m","o","d","e","l","s"," ","a","r","e"," ","a","v","a","i","l","a","b","l","e">> (* Error: No AI models are available *))
             /\ ga_events = <<[ev |-> "select", backend |-> "None", text |-> <<>>]>>
       /\ \A j \in 1..Len(ga_events) : ga_events[j].ev \notin {"call", "fail", "sandbox"}
       /\ ex_pc = "idle"

\* "Good morning" with no backend configured has been answered
C9_Witness ==
    /\ available_models = <<>>
    /\ hq_question = <<"G","o","o","d"," ","m","o","r","n","i","n","g">> (* Good morning *)
    /\ hq_pc = "done" /\ ~BankAnswered
    /\ ga_pc = "returned"
    /\ ga_answer = PyStr(<<"E","r","r","o","r",":"," ","N","o"," ","A","I"," ","m","o","d","e","l","s"," ","a","r","e"," ","a","v","a","i","l","a","b","l","e">> (* Error: No AI models are available *))

\* C15: asked through generate_answer, "What is the factorial of n?" returns
\* the decimal value of n! (120 for 5, 3628800 for 10), and the question with
\* the fenced list(filter(lambda x: x % 2 == 0, range(20))) block returns
\* "[0, 2, 4, 6, 8, 10, 12, 14, 16, 18]"; whichever backends are configured,
\* none is selected or called for these questions.
C15_BankEndToEnd ==
    LET q == hq_question
        FactorialQuestion(m) == <<"W","h","a","t"," ","i","s"," ","t","h","e"," ","f","a","c","t","o","r","i","a","l"," ","o","f"," ">> (* What is the factorial of  *) \o IntToStr(m) \o <<"?">> (* ? *)
        FilterQuestion ==
            <<"W","h","a","t"," ","i","s"," ","t","h","e"," ","o","u","t","p","u","t"," ","o","f"," ","t","h","i","s"," ","c","o","d","e","?","\n",Backtick,Backtick,Backtick,"p","y","t","h","o","n","\n","p","r","i","n","t","(","l","i","s","t","(","f","i","l","t","e","r","(","l","a","m","b","d","a"," ","x",":"," ","x"," ","%"," ","2"," ","=","="," ","0",","," ","r","a","n","g","e","(","2","0",")",")",")",")","\n",Backtick,Backtick,Backtick>> (* What is the output of this code?[nl][bq][bq][bq]python[nl]print(list(filter(lambda x: x % 2 == 0, range(20))))[nl][bq][bq][bq] *)
        table == <<1, 1, 2, 6, 24, 120, 720, 5040, 40320, 362880, 3628800,
                   39916800, 479001600>>
        n == ParseInt(SubSeq(q, 26, 25 + DigitRun(q, 26)))
        factorial == StartsWith(q, <<"W","h","a","t"," ","i","s"," ","t","h","e"," ","f","a","c","t","o","r","i","a","l"," ","o","f"," ">> (* What is the factorial of  *)) /\ q = FactorialQuestion(n)
        expected == IF factorial THEN IntToStr(table[n + 1])
                    ELSE <<"[","0",","," ","2",","," ","4",","," ","6",","," ","8",","," ","1","0",","," ","1","2",","," ","1","4",","," ","1","6",","," ","1","8","]">> (* [0, 2, 4, 6, 8, 10, 12, 14, 16, 18] *)
    IN  (factorial \/ q = FilterQuestion) =>
           /\ ga_pc \in {"idle", "bank", "returned"}
           /\ ga_events = <<>>
           /\ ga_pc = "returned" => ga_answer = PyStr(expected)

C15_Witness ==
    /\ hq_question =
          <<"W","h","a","t"," ","i","s"," ","t","h","e"," ","o","u","t","p","u","t"," ","o","f"," ","t","h","i","s"," ","c","o","d","e","?","\n",Backtick,Backtick,Backtick,"p","y","t","h","o","n","\n","p","r","i","n","t","(","l","i","s","t","(","f","i","l","t","e","r","(","l","a","m","b","d","a"," ","x",":"," ","x"," ","%"," ","2"," ","=","="," ","0",","," ","r","a","n","g","e","(","2","0",")",")",")",")","\n",Backtick,Backtick,Backtick>> (* What is the output of this code?[nl][bq][bq][bq]python[nl]print(list(filter(lambda x: x % 2 == 0, range(20))))[nl][bq][bq][bq] *)
    /\ available_models = <<"gemini", "openai">>
    /\ ga_pc = "returned"
    /\ ga_answer = PyStr(<<"[","0",","," ","2",","," ","4",","," ","6",","," ","8",","," ","1","0",","," ","1","2",","," ","1","4",","," ","1","6",","," ","1","8","]">> (* [0, 2, 4, 6, 8, 10, 12, 14, 16, 18] *))

\* C18: with both backends configured, a question whose coding-indicator score
\* is at least its data-indicator score is dispatched to OpenAI and is given
\* the coding system prompt.
C18_TieOrCodingToOpenAI ==
    LET q == Lower(hq_question)
        coding == {<<"c","o","d","e">> (* code *), <<"f","u","n","c","t","i","o","n">> (* function *), <<"a","l","g","o","r","i","t","h","m">> (* algorithm *), <<"p","r","o","g","r","a","m","m","i","n","g">> (* programming *), <<"p","y","t","h","o","n">> (* python *),
                   <<"j","a","v","a","s","c","r","i","p","t">> (* javascript *), <<"c","o","m","p","u","t","e">> (* compute *), <<"c","a","l","c","u","l","a","t","e">> (* calculate *), <<"i","m","p","l","e","m","e","n","t">> (* implement *), <<"s","c","r","i","p","t">> (* script *),
                   <<"c","l","a","s","s">> (* class *), <<"m","e","t","h","o","d">> (* method *), <<"s","y","n","t","a","x">> (* syntax *), <<"c","o","m","p","i","l","e","r">> (* compiler *), <<"i","n","t","e","r","p","r","e","t","e","r">> (* interpreter *), <<"r","u","n","t","i","m","e">> (* runtime *)}
        data == {<<"d","a","t","a"," ","f","r","a","m","e">> (* data frame *), <<"p","a","n","d","a","s">> (* pandas *), <<"c","s","v">> (* csv *), <<"d","a","t","a","s","e","t">> (* dataset *), <<"d","a","t","a"," ","s","e","t">> (* data set *),
                 <<"v","i","s","u","a","l","i","z","a","t","i","o","n">> (* visualization *), <<"p","l","o","t">> (* plot *), <<"g","r","a","p","h">> (* graph *), <<"c","h","a","r","t">> (* chart *), <<"a","n","a","l","y","s","i","s">> (* analysis *),
                 <<"s","t","a","t","i","s","t","i","c","s">> (* statistics *), <<"r","e","g","r","e","s","s","i","o","n">> (* regression *), <<"p","r","e","d","i","c","t","i","o","n">> (* prediction *), <<"m","a","c","h","i","n","e"," ","l","e","a","r","n","i","n","g">> (* machine learning *)}
        \* "function" is listed twice among the coding indicators
        coding_score == Cardinality({i \in coding : Contains(q, i)})
                           + (IF Contains(q, <<"f","u","n","c","t","i","o","n">> (* function *)) THEN 1 ELSE 0)
        data_score == Cardinality({i \in data : Contains(q, i)})
    IN  (available_models = <<"gemini", "openai">> /\ coding_score >= data_score) =>
           \A k \in 1..Len(ga_events) :
              /\ ga_events[k].ev = "select" => ga_events[k].backend = "openai"
              /\ ga_events[k].ev = "prompt" => ga_events[k].text = <<"c","o","d","i","n","g">> (* coding *)

\* C19: the backend reply is replaced by the output of the sandbox runner
\* only when the question was classified as coding, the reply contains fenced
\* code, the question asks for execution and the execution produced a
\* result; when a block fails, times out or is skipped for its language, or
\* no block is found, the reply is kept.
C19_ReplyKeptUnlessExecuted ==
    LET calls == {k \in 1..Len(ga_events) : ga_events[k].ev \in {"call", "fail"}}
        reply == LET e == ga_events[CHOOSE k \in calls : TRUE]
                 IN  IF e.ev = "call" THEN Strip(e.text) ELSE <<"E","r","r","o","r",":"," ">> (* Error:  *) \o e.text
        sandboxed == \E k \in 1..Len(ga_events) : ga_events[k].ev = "sandbox"
        unsuccessful == \E i \in 1..Len(sb_results) :
                           \/ StartsWith(sb_results[i], <<"E","r","r","o","r"," ","e","x","e","c","u","t","i","n","g"," ">> (* Error executing  *))
                           \/ StartsWith(sb_results[i], <<"S","k","i","p","p","e","d"," ","e","x","e","c","u","t","i","o","n",":"," ">> (* Skipped execution:  *))
    IN  (ga_pc = "clean" /\ calls # {}) =>
           /\ ga_response # reply =>
                 /\ is_coding(hq_question)
                 /\ is_code_execution_needed(hq_question, reply)
                 /\ sandboxed /\ sb_results # <<>> /\ ~unsuccessful
           /\ (sandboxed /\ (sb_results = <<>> \/ unsuccessful)) => ga_response = reply

\* C25: what extract_code_blocks gives for the reply handed to the sandbox
\* runner.  If the text has a fenced region (an opening and a closing triple
\* backtick), the blocks are the fenced regions in source order, the fences
\* paired off from the left: the language is the word after the opening fence
\* in lower case, or python when there is none, the code is the text up to the
\* closing fence, trimmed; indented lines are then ignored.  If it has none,
\* the blocks are the runs of consecutive lines indented by four blanks or a
\* tab, in order, their indent removed and their language detected.
C25_BlocksInSourceOrder ==
    LET text == ga_response
        fence == <<Backtick, Backtick, Backtick>>
        P == {i \in 1..Len(text) : MatchAt(text, i, fence)}
        nth(k) == CHOOSE p \in P : Cardinality({x \in P : x < p}) = k - 1
        fenced == [k \in 1..(Cardinality(P) \div 2) |->
                     LET o == nth(2 * k - 1)
                         c == nth(2 * k)
                         w == SetMin({j \in (o + 3)..c : text[j] \notin WordChars})
                     IN  << IF w = o + 3 THEN <<"p","y","t","h","o","n">> (* python *) ELSE Lower(SubSeq(text, o + 3, w - 1)),
                            Strip(SubSeq(text, w, c - 1)) >>]
        lines == Split(text, "\n")
        ind(k) == StartsWith(lines[k], <<" "," "," "," ">> (*      *)) \/ StartsWith(lines[k], <<"\t">>)
        bare(k) == IF StartsWith(lines[k], <<" "," "," "," ">> (*      *)) THEN SubSeq(lines[k], 5, Len(lines[k]))
                   ELSE Tail(lines[k])
        starts == {k \in 1..Len(lines) : ind(k) /\ (k = 1 \/ ~ind(k - 1))}
        start(n) == CHOOSE s \in starts : Cardinality({x \in starts : x < s}) = n - 1
        last(s) == SetMax({e \in s..Len(lines) : \A j \in s..e : ind(j)})
        indented == [n \in 1..Cardinality(starts) |->
                       LET code == Join([j \in 1..(last(start(n)) - start(n) + 1) |->
                                            bare(start(n) + j - 1)], <<"\n">>)
                       IN  <<detect_language(code), code>>]
        expected == IF fenced # <<>> THEN fenced ELSE indented
    IN  /\ (ga_pc = "blocks" /\ sb_results = <<>>) => sb_blocks = expected
        /\ (ga_pc = "clean" /\ sb_results = <<>> /\ ga_events # <<>>
               /\ ga_events[Len(ga_events)].ev = "result") => expected = <<>>

\* a reply with a ruby block and an untagged block: two blocks, in order
C25_Witness ==
    /\ ga_pc = "blocks"
    /\ sb_results = <<>>
    /\ sb_blocks = << <<<<"r","u","b","y">> (* ruby *), <<"p","u","t","s"," ","5">> (* puts 5 *)>>, <<<<"p","y","t","h","o","n">> (* python *), <<"p","r","i","n","t","(","5",")">> (* print(5) *)>> >>

\* C26: when execute_and_get_result has returned, its result has one entry for
\* each block extracted from the reply, in block order, joined by blank lines:
\* the skip message for a block in an unsupported language, the result or
\* the error message of its one execution for a supported one; execute_code
\* has been called once for each supported block, in order, and for no other;
\* with no block the result is "No code blocks found to execute" and
\* execute_code has not been called.
C26_OneEntryPerBlock ==
    LET calls == {k \in 1..Len(ga_events) : ga_events[k].ev \in {"call", "fail"}}
        reply == LET e == ga_events[CHOOSE k \in calls : TRUE]
                 IN  IF e.ev = "call" THEN Strip(e.text) ELSE <<"E","r","r","o","r",":"," ">> (* Error:  *) \o e.text
        blocks == extract_code_blocks(reply)
        executed == SelectSeq(ga_events, LAMBDA e : e.ev = "execute")
        supported == SelectSeq(blocks, LAMBDA b : b[1] \in SUPPORTED_LANGUAGES)
        entry(k) == sb_results[k]
        language(k) == blocks[k][1]
    IN  \A r \in 1..Len(ga_events) :
           ga_events[r].ev = "result" =>
              /\ [k \in 1..Len(executed) |-> executed[k].text] =
                 [k \in 1..Len(supported) |-> supported[k][1]]
              /\ IF blocks = <<>>
                 THEN ga_events[r].text = <<"N","o"," ","c","o","d","e"," ","b","l","o","c","k","s"," ","f","o","u","n","d"," ","t","o"," ","e","x","e","c","u","t","e">> (* No code blocks found to execute *)
                 ELSE /\ ga_events[r].text = Join(sb_results, <<"\n", "\n">>)
                      /\ Len(sb_results) = Len(blocks)
                      /\ \A k \in 1..Len(blocks) :
                            IF language(k) \in SUPPORTED_LANGUAGES
                            THEN \/ StartsWith(entry(k), <<"R","e","s","u","l","t"," ","o","f"," ">> (* Result of  *) \o language(k) \o <<" ","c","o","d","e"," ","e","x","e","c","u","t","i","o","n",":","\n">> (*  code execution:[nl] *))
                                 \/ StartsWith(entry(k), <<"E","r","r","o","r"," ","e","x","e","c","u","t","i","n","g"," ">> (* Error executing  *) \o language(k) \o <<" ","c","o","d","e",":"," ">> (*  code:  *))
                            ELSE entry(k) = <<"S","k","i","p","p","e","d"," ","e","x","e","c","u","t","i","o","n",":"," ","U","n","s","u","p","p","o","r","t","e","d"," ","l","a","n","g","u","a","g","e"," ","'">> (* Skipped execution: Unsupported language ' *) \o language(k) \o <<"'">> (* ' *)

\* a ruby block skipped, then a python block executed
C26_Witness ==
    /\ ga_events # <<>>
    /\ ga_events[Len(ga_events)].ev = "result"
    /\ ga_events[Len(ga_events)].text =
          <<"S","k","i","p","p","e","d"," ","e","x","e","c","u","t","i","o","n",":"," ","U","n","s","u","p","p","o","r","t","e","d"," ","l","a","n","g","u","a","g","e"," ","'","r","u","b","y","'","\n","\n","R","e","s","u","l","t"," ","o","f"," ","p","y","t","h","o","n"," ","c","o","d","e"," ","e","x","e","c","u","t","i","o","n",":","\n","5">> (* Skipped execution: Unsupported language 'ruby'[nl][nl]Result of python code execution:[nl]5 *)

\* C28: every interpreter started while a question is answered (by the sandbox
\* runner and by the matchers of the bank) is waited for with a timeout and
\* killed when it expires, so that generate_answer eventually returns: the
\* call is never in the state of waiting without a limit for an interpreter
\* that does not end, a state that no step of the call leaves.
C28_NoEndlessWait == hq_pc # "hung"

(***************************************************************************)
(* clean_response applied to a text, and again to its own result           *)
(***************************************************************************)

\* pieces the raw texts are put together from
CleanTokens ==
    << <<"a","n","s","w","e","r",":"," ">> (* answer:  *), <<"t","h","e"," ","a","n","s","w","e","r"," ","i","s"," ">> (* the answer is  *), <<"\"">> (* [dq] *), <<"'">> (* ' *), <<"5">> (* 5 *), <<"\n">> (* [nl] *), <<" ">> (*   *),
       <<"V","e","r","s","i","o","n",":"," ","1">> (* Version: 1 *), <<"f","o","r","t","y"," ","t","w","o">> (* forty two *),
       <<"A","n","s","w","e","r",":"," ","7">> (* Answer: 7 *), <<"7">> (* 7 *) >>

\* longest raw text, in pieces
MaxCleanTokens == 3

CleanInputs ==
    UNION { {Join([k \in 1..n |-> CleanTokens[f[k]]], <<>>) : f \in [1..n -> 1..Len(CleanTokens)]} :
            n \in 1..MaxCleanTokens }

CleanInit ==
    /\ Idle({"bank", "exec", "gen"})
    /\ cl_pc = "start"
    /\ cl_response \in CleanInputs
    /\ cl_question \in
        { <<"W","h","a","t"," ","i","s"," ","4","0"," ","+"," ","2","?">> (* What is 40 + 2? *),
          <<"W","h","a","t"," ","i","s"," ","t","h","e"," ","o","u","t","p","u","t"," ","o","f"," ","c","o","d","e"," ","-","s","?">> (* What is the output of code -s? *),
          <<"W","h","i","c","h"," ","c","o","m","m","a","n","d"," ","l","i","s","t","s"," ","f","i","l","e","s","?">> (* Which command lists files? *) }
    /\ cl_out1 = PyStr(<<>>)
    /\ cl_out2 = PyStr(<<>>)

CleanOnce ==
    /\ cl_pc = "start"
    /\ cl_out1' = clean_response(cl_response, cl_question)
    /\ cl_pc' = "once"
    /\ UNCHANGED <<cl_response, cl_question, cl_out2, bank_vars, exec_vars, gen_vars>>

CleanTwice ==
    /\ cl_pc = "once"
    /\ cl_out1.kind = "str"
    /\ cl_out2' = clean_response(cl_out1.val, cl_question)
    /\ cl_pc' = "twice"
    /\ UNCHANGED <<cl_response, cl_question, cl_out1, bank_vars, exec_vars, gen_vars>>

CleanNext == CleanOnce \/ CleanTwice

CleanSpec == CleanInit /\ [][CleanNext]_vars

\* C2: clean_response is idempotent: cleaning its own result again, for the
\* same question, gives that result (stated for the runs in which the second
\* application returns; it can also raise, on a result that is blank).
C2_Idempotent ==
    (cl_pc = "twice" /\ cl_out2.kind = "str") => cl_out2 = cl_out1


\* C20: clean_response removes exactly one layer of wrapping quote characters
\* from the selected answer: a quote character on one side only is not a
\* wrapping layer and stays, and of two layers the inner one stays.  Stated
\* for a response of one line, which is the selected answer, and a question
\* without special treatment.
C20_OneLayerOfQuotes ==
    LET lines == NonEmptyLines(cl_response)
        a == lines[1]
        quotes == {"\"", "'"}
        wrapped == Len(a) >= 2 /\ a[1] \in quotes /\ a[Len(a)] \in quotes
        expected == IF wrapped THEN SubSeq(a, 2, Len(a) - 1) ELSE a
    IN  (cl_pc # "start" /\ Len(lines) = 1 /\ cl_question = <<"W","h","a","t"," ","i","s"," ","4","0"," ","+"," ","2","?">> (* What is 40 + 2? *)) =>
           cl_out1 = PyStr(StripPrefixes(expected, 1))


\* C21: clean_response strips at most one lead-in of the fixed prefix list,
\* compared without regard to case, from the start of the selected answer: if
\* the answer (its quotes removed) starts with a lead-in, the result is the
\* rest of it, trimmed, and nothing more is removed; otherwise the result is
\* the answer.  Stated for a response of one line and a question without
\* special treatment.
C21_OneLeadInStripped ==
    LET lines == NonEmptyLines(cl_response)
        a == StripChars(lines[1], {"\"", "'"})
        matching == {k \in 1..Len(common_prefixes) : StartsWith(Lower(a), common_prefixes[k])}
        expected == IF matching = {} THEN a
                    ELSE Strip(SubSeq(a, Len(common_prefixes[SetMin(matching)]) + 1, Len(a)))
    IN  (cl_pc # "start" /\ Len(lines) = 1 /\ cl_question = <<"W","h","a","t"," ","i","s"," ","4","0"," ","+"," ","2","?">> (* What is 40 + 2? *)) =>
           cl_out1 = PyStr(expected)


\* C22: for a response of more than one non-empty line that the code -s rule
\* does not catch, if some line begins with "answer:", "the answer is:" or
\* "result:" (in any case), the selected answer is the text after the first
\* colon of the first such line; the header rule, the rule for command and
\* output questions and the shortest-line rule are not applied, whatever the
\* other lines and the question are.  The result is that answer with its
\* quotes and lead-ins removed.
C22_LabelledLineWins ==
    LET lines == NonEmptyLines(cl_response)
        q == Lower(cl_question)
        caught == Contains(q, <<"c","o","d","e"," ","-","s">> (* code -s *)) /\ Contains(q, <<"o","u","t","p","u","t">> (* output *)) /\ HasOutputHeader(lines)
        label(line) == \E t \in {<<"a","n","s","w","e","r",":">> (* answer: *), <<"t","h","e"," ","a","n","s","w","e","r"," ","i","s",":">> (* the answer is: *), <<"r","e","s","u","l","t",":">> (* result: *)} :
                          StartsWith(Lower(line), t)
        first == SetMin({k \in 1..Len(lines) : label(lines[k])})
        colon == SetMin({i \in 1..Len(lines[first]) : lines[first][i] = ":"})
        answer == Strip(SubSeq(lines[first], colon + 1, Len(lines[first])))
    IN  (cl_pc # "start" /\ Len(lines) > 1 /\ ~caught /\ \E k \in 1..Len(lines) : label(lines[k])) =>
           cl_out1 = FinishClean(answer)

\* a labelled line after a header line, for a question about a command: the
\* line after the label is the result
C22_Witness ==
    /\ cl_pc = "once"
    /\ cl_response = <<"V","e","r","s","i","o","n",":"," ","1","\n","A","n","s","w","e","r",":"," ","7">> (* Version: 1[nl]Answer: 7 *)
    /\ cl_question = <<"W","h","i","c","h"," ","c","o","m","m","a","n","d"," ","l","i","s","t","s"," ","f","i","l","e","s","?">> (* Which command lists files? *)
    /\ cl_out1 = PyStr(<<"7">> (* 7 *))


\* C23: for a response of more than one non-empty line, none of them
\* beginning with an answer label or an output header: if the question
\* contains "command" or "output", the result is all non-empty trimmed lines
\* joined by newlines, in order; otherwise it is derived (quotes and lead-ins
\* removed) from the first line of minimal length.
C23_JoinedOrShortest ==
    LET lines == NonEmptyLines(cl_response)
        q == Lower(cl_question)
        label(line) == \E t \in {<<"a","n","s","w","e","r",":">> (* answer: *), <<"t","h","e"," ","a","n","s","w","e","r"," ","i","s",":">> (* the answer is: *), <<"r","e","s","u","l","t",":">> (* result: *)} :
                          StartsWith(Lower(line), t)
        header(line) == \E t \in {<<"v","e","r","s","i","o","n",":">> (* version: *), <<"o","s"," ","v","e","r","s","i","o","n",":">> (* os version: *)} : StartsWith(Lower(line), t)
        shortest == CHOOSE k \in 1..Len(lines) :
                       /\ \A j \in 1..Len(lines) : Len(lines[k]) <= Len(lines[j])
                       /\ \A j \in 1..(k - 1) : Len(lines[j]) > Len(lines[k])
    IN  (/\ cl_pc # "start"
         /\ Len(lines) > 1
         /\ \A k \in 1..Len(lines) : ~label(lines[k]) /\ ~header(lines[k])) =>
           IF Contains(q, <<"c","o","m","m","a","n","d">> (* command *)) \/ Contains(q, <<"o","u","t","p","u","t">> (* output *))
           THEN cl_out1 = PyStr(Join(lines, <<"\n">>))
           ELSE cl_out1 = FinishClean(lines[shortest])

\* two lines of the same length: the first of them is the result
C23_Witness ==
    /\ cl_pc = "once"
    /\ cl_response = <<"7","\n","5">> (* 7[nl]5 *)
    /\ cl_question = <<"W","h","a","t"," ","i","s"," ","4","0"," ","+"," ","2","?">> (* What is 40 + 2? *)
    /\ cl_out1 = PyStr(<<"7">> (* 7 *))


\* C24: the result is all non-empty trimmed lines joined by newlines, no line
\* dropped and no quote or lead-in removed, when (a) the question contains
\* both "code -s" and "output" and some line begins with "version:" or
\* "os version:", or (b) the response has more than one line, none begins
\* with an answer label, and some line begins with "version:" or
\* "os version:".
C24_CommandOutputKept ==
    LET lines == NonEmptyLines(cl_response)
        q == Lower(cl_question)
        label(line) == \E t \in {<<"a","n","s","w","e","r",":">> (* answer: *), <<"t","h","e"," ","a","n","s","w","e","r"," ","i","s",":">> (* the answer is: *), <<"r","e","s","u","l","t",":">> (* result: *)} :
                          StartsWith(Lower(line), t)
        header(line) == \E t \in {<<"v","e","r","s","i","o","n",":">> (* version: *), <<"o","s"," ","v","e","r","s","i","o","n",":">> (* os version: *)} : StartsWith(Lower(line), t)
        headed == \E k \in 1..Len(lines) : header(lines[k])
        a == Contains(q, <<"c","o","d","e"," ","-","s">> (* code -s *)) /\ Contains(q, <<"o","u","t","p","u","t">> (* output *)) /\ headed
        b == Len(lines) > 1 /\ headed /\ \A k \in 1..Len(lines) : ~label(lines[k])
    IN  (cl_pc # "start" /\ (a \/ b)) => cl_out1 = PyStr(Join(lines, <<"\n">>))

\* one line of command output ending in a quote, for the code -s question:
\* the quote is kept
C24_Witness ==
    /\ cl_pc = "once"
    /\ cl_response = <<"V","e","r","s","i","o","n",":"," ","1","\"">> (* Version: 1[dq] *)
    /\ cl_question = <<"W","h","a","t"," ","i","s"," ","t","h","e"," ","o","u","t","p","u","t"," ","o","f"," ","c","o","d","e"," ","-","s","?">> (* What is the output of code -s? *)
    /\ cl_out1 = PyStr(<<"V","e","r","s","i","o","n",":"," ","1","\"">> (* Version: 1[dq] *))

====
